---- MODULE Spec2Model ----
(***************************************************************************)
(* Model of the proposal60 web application (src/app.py, src/db.py):        *)
(*   - the acceptance workflow  (POST /pdf, GET and POST /accept/<id>),    *)
(*   - the free-usage ledger    (POST /generate, free_usage table).        *)
(*                                                                         *)
(* Each HTTP request is served by a worker.  A handler that talks to the   *)
(* database more than once is cut into one step per database interaction:  *)
(* sqlite3 autocommits a SELECT, and an INSERT/UPDATE followed by          *)
(* conn.commit() holds the write lock from the statement to the commit,    *)
(* so "statement + commit" is one atomic step and readers see committed    *)
(* rows only.  Other workers may run between two steps of a handler.       *)
(*                                                                         *)
(* Nullable columns and optional form fields are options: None is <<>>,    *)
(* a present value v is <<v>>.  Time is the clock reading in seconds.      *)
(***************************************************************************)
EXTENDS Integers, Sequences, FiniteSets, TLC

VARIABLES
    now,         \* the wall clock (datetime.utcnow / time.time), seconds
    proposals,   \* table proposals: id -> row (rows that exist)
    free_usage,  \* table free_usage: key -> used_count (rows that exist)
    ip_hits,     \* _ip_hits: ip -> sequence of timestamps (deque)
    reqs,        \* per worker: the request in flight and its local variables
    resp,        \* the last response sent
    committed,   \* history: key -> number of committed increment_free_usage calls
    rate_log,    \* history: ip -> the is_rate_limited calls made, in order
    magic_email_hits,  \* _magic_email_hits: email -> sequence of timestamps
    pro_devices, \* Stripe metadata pro_devices: customer -> the listed ids
    issued,      \* history: the signed tokens the server has handed out
    data,        \* the input dict handed to ai_input_hash
    ai_proposal_cache  \* table ai_proposal_cache: the committed rows

\* The variables that the acceptance workflow and the usage ledger leave alone.
ext == <<rate_log, magic_email_hits, pro_devices, issued, data,
        ai_proposal_cache>>

\* The variables of the magic links and of the signed tokens.
proVars == <<rate_log, magic_email_hits, pro_devices, issued>>

\* The tables of the database and the history of the ledger.
dbVars == <<proposals, free_usage, committed>>

vars == <<now, proposals, free_usage, ip_hits, reqs, resp, committed, ext>>

-----------------------------------------------------------------------------
(* Options                                                                 *)

None == <<>>
Some(v) == <<v>>
Val(o) == o[1]

\* Python truthiness of an optional string: None and "" are falsy.
Falsy(o) == o = None \/ o = Some("")

-----------------------------------------------------------------------------
(* Program constants                                                       *)

SECONDS_PER_DAY == 86400
MAGIC_EMAIL_WINDOW == 900
MAGIC_EMAIL_MAX == 3
MAGIC_LINK_TTL_SECONDS == 900
MAX_EMAIL_LENGTH == 254
MAX_DEVICES == 2
CACHE_DAYS == 30
ACCEPT_EXPIRY_DAYS == 14
MAX_DECLINE_REASON == 1000
FREE_LIMIT == 3
RATE_LIMIT_PER_MINUTE == 10
RATE_WINDOW == 60

-----------------------------------------------------------------------------
(* Bounds of the model                                                     *)

MaxAcceptTicks == 2      \* clock steps of the acceptance workflow
MaxLedgerTicks == 1      \* clock steps of the usage ledger

\* One clock step of the acceptance workflow: the lifetime of a token, so
\* that a proposal is seen before, exactly at and after its expiry.
AcceptTickStep == ACCEPT_EXPIRY_DAYS * SECONDS_PER_DAY

Workers == {1, 2}
PropIds == {"p1", "p2"}
Tokens == {"t1", "t2"}
IPs == {"ip1"}

\* The identities the rate limiter is called for: the client IPs and one more.
RateIds == IPs \cup {"ip2"}

\* Submitted names, as sequences of characters, before strip().
RawNames == {<<>>, <<" ">>, <<" ", "a", " ">>}

\* A decline reason is tracked by its length after strip().
ReasonLens == {MAX_DECLINE_REASON, MAX_DECLINE_REASON + 1}

Decisions == {None, Some("accept"), Some("decline"), Some("maybe")}
FormTokens == {None} \cup {Some(t) : t \in Tokens}

Idle == [pc |-> "idle"]

MaxRateClock == 121      \* last clock reading of the rate limiter
MaxRateCalls == 12       \* calls of is_rate_limited per identity

\* The clock steps of the rate limiter: a hit is then seen exactly 60 seconds
\* old, and one second older.
RateTickSteps == {RATE_WINDOW, RATE_WINDOW + 1}

\* One clock step of the usage ledger: just over the rate limiter's window.
LedgerTickStep == RATE_WINDOW + 1

DeviceIds == {"d1"}
CustomerIds == {"c1"}

MaxMagicClock == 901     \* last clock reading of the magic links
MaxLinkRequests == 4     \* POST /request-magic-link requests per ip

\* The clock steps of the magic links: a link is then seen exactly at its
\* expiry, and one second later.
MagicTickSteps == {MAGIC_LINK_TTL_SECONDS, MAGIC_LINK_TTL_SECONDS + 1}

\* The addresses that hold an account.
Emails == {"e1"}

\* The email field of a form after strip().lower(): empty, an address, and
\* an address of 255 characters.
EmailForms == {""} \cup Emails \cup {"long"}

\* The purpose field of a form after strip().
PurposeForms == {"billing", "restore_pro", ""}

\* The device_id field of a form after strip(); the last one holds a comma.
DeviceForms == {"", "d1", "d2", "d2,d3"}

\* The device ids submitted while the magic links are exercised.
MagicDeviceForms == {"", "d1"}

\* The usage keys: f"device:{device}" and f"ip:{ip}".
Keys == {<<"device", d>> : d \in DeviceIds} \cup {<<"ip", ip>> : ip \in IPs}

MaxChanged == 1          \* fields of the hashed input changed at a time

\* The characters of a form field: letters in both cases, the space and the
\* two characters of the line endings.
Letters == {"a", "A"}
Spaces == {" ", "cr", "lf"}
Chars == Letters \cup Spaces

\* The texts of a form field: the short ones, and longer ones with white
\* space and line endings inside.
FieldTexts ==
    {<<>>} \cup {<<c>> : c \in Chars}
      \cup {<<c, d>> : c \in Chars, d \in {"a", " ", "lf"}}
      \cup {<<"a", " ", "a">>, <<"A", " ", " ", "a">>, <<"a", "cr", "lf", "a">>,
            <<"a", "lf", "A">>, <<"a", "cr", "a">>, <<" ", "a", "lf", " ", "a", "cr">>}

\* The fields that ai_input_hash reads, in the order of its parts, and the
\* fields of the form that it does not read.
HashedFields ==
    <<"trade", "trade_profile", "service_type", "scope", "tone", "timeframe",
      "your_business", "abn">>
OtherFields == {"client_name", "price"}
AllFields == {HashedFields[k] : k \in 1..Len(HashedFields)} \cup OtherFields

\* The input the changes start from.
BaseInput == [f \in AllFields |-> <<"a">>]

\* The inputs of build_proposal_text: form fields as POST /generate passes
\* them on.  A request, the same request for another client, without a
\* price, without a scope, and with another timeframe; the trade, the
\* service, the tone and the business are the same in all.
BuildInput(c, p, s, t) ==
    [BaseInput EXCEPT !.client_name = c, !.price = p, !.scope = s,
                      !.timeframe = t]

BuildInputs ==
    {BuildInput(<<"a">>, <<"a">>, <<"-", "a">>, <<>>),
     BuildInput(<<"A", "a">>, <<"a">>, <<"-", "a">>, <<>>),
     BuildInput(<<"a">>, <<>>, <<"-", "a">>, <<>>),
     BuildInput(<<"a">>, <<"a">>, <<>>, <<>>),
     BuildInput(<<"a">>, <<"a">>, <<"-", "a">>, <<"a">>)}

MaxCacheClock == 2592001   \* last clock reading of the cache

\* The clock of the cache advances by the age of eviction, or by a second
\* more.
CacheTickSteps == {CACHE_DAYS * SECONDS_PER_DAY, CACHE_DAYS * SECONDS_PER_DAY + 1}

\* What the completion provider does with a call: it answers with text,
\* answers with nothing, or the call raises.
ProviderOutcomes == {"text", "empty", "raise"}

\* The inputs of generate_proposal_ai: the stripped form fields of POST
\* /generate with their trade profile.  The scope may be empty, one line,
\* a marker only, or several lines with markers and blank lines.
AiInputs ==
    {[BaseInput EXCEPT !.client_name = c, !.price = p, !.scope = s,
                       !.timeframe = t,
                       !.trade_profile = <<"profile of ", "general">>] :
        c \in {<<>>, <<"a">>}, p \in {<<>>, <<"a">>},
        s \in {<<>>, <<"a">>, <<"-">>, <<"a", "lf", "-">>,
               <<"-", " ", "a", "lf", "lf", " ", "-", "a", "cr", "lf", "A">>},
        t \in {<<>>, <<"a">>}}

\* The inputs of build_fallback_proposal: form fields as POST /generate
\* passes them on, stripped (app.py 856-868).  A scope may hold several
\* lines, bullet markers and lines that are blank or a marker only.
FallbackInputs ==
    {[BaseInput EXCEPT !.client_name = c, !.scope = s, !.price = p,
                       !.timeframe = t, !.your_business = b] :
        c \in {<<>>, <<"a">>},
        s \in {<<>>, <<"a">>, <<"-">>,
               <<"-", " ", "a", "lf", "lf", " ", "-", "a", "cr", "lf", "A">>},
        p \in {<<>>, <<"a">>, <<"a", " ", "A">>},
        t \in {<<>>, <<"a">>, <<"a", " ", "a">>},
        b \in {<<>>, <<"a">>}}

-----------------------------------------------------------------------------
(* str.strip() on a sequence of characters                                 *)

RECURSIVE LStrip(_)
LStrip(s) == IF s # <<>> /\ Head(s) = " " THEN LStrip(Tail(s)) ELSE s

RECURSIVE RStrip(_)
RStrip(s) ==
    IF s # <<>> /\ s[Len(s)] = " " THEN RStrip(SubSeq(s, 1, Len(s) - 1)) ELSE s

Strip(s) == RStrip(LStrip(s))

-----------------------------------------------------------------------------
(* Acceptance workflow                                                     *)

\* FormInvalid without the cap of the decline reason.
FormInvalid_NoReasonCap(decision, name, reason_len) ==
    decision = Some("accept") /\ name = <<>>

\* app.py 1340-1344: the two form checks that abort(400).
FormInvalid(decision, name, reason_len) ==
    \/ decision = Some("accept") /\ name = <<>>
    \/ decision = Some("decline") /\ reason_len > MAX_DECLINE_REASON

\* PostRejected without the expiry comparison.
PostRejected_NoExpiry(row, token, t) ==
    \/ row.status # "pending"
    \/ token # row.accept_token
    \/ row.accept_expires_at = None

\* PostRejected without the token comparison.
PostRejected_NoToken(row, token, t) ==
    \/ row.status # "pending"
    \/ row.accept_expires_at = None
    \/ t > Val(row.accept_expires_at)

\* app.py 1360-1365: the condition under which the POST aborts with 403.
PostRejected(row, token, t) ==
    \/ row.status # "pending"
    \/ token # row.accept_token
    \/ row.accept_expires_at = None
    \/ t > Val(row.accept_expires_at)

\* ViewRejected with the expiry comparison the wrong way round.
ViewRejected_ExpiryFlipped(row, token, t) ==
    \/ Falsy(token)
    \/ token # row.accept_token
    \/ row.accept_expires_at = None
    \/ t < Val(row.accept_expires_at)

\* app.py 1316-1323: the condition under which the GET of a pending
\* proposal aborts with 403.
ViewRejected(row, token, t) ==
    \/ Falsy(token)
    \/ token # row.accept_token
    \/ row.accept_expires_at = None
    \/ t > Val(row.accept_expires_at)

\* app.py 1335-1367: how far the POST gets before it writes: the status of
\* the abort() that ends it, or 0 when every check passes and the handler goes
\* on to the UPDATE.
PostOutcome(id, decision, raw_name, reason_len, token) ==
    IF FormInvalid(decision, Strip(raw_name), reason_len) THEN 400
    ELSE IF Falsy(token) THEN 403
    ELSE IF id \notin DOMAIN proposals THEN 404
    ELSE IF PostRejected(proposals[id], token, now) THEN 403
    ELSE 0

\* app.py 1295-1329: the response of the GET.
ViewOutcome(id, token) ==
    IF id \notin DOMAIN proposals
    THEN [op |-> "get", code |-> 404]
    ELSE IF proposals[id].status # "pending"
    THEN [op |-> "get", code |-> 200, page |-> "proposal_status"]
    ELSE IF ViewRejected(proposals[id], token, now)
    THEN [op |-> "get", code |-> 403]
    ELSE [op |-> "get", code |-> 200, page |-> "proposal_accept"]

\* app.py 1369
NewStatus(decision) ==
    IF decision = Some("accept") THEN "accepted" ELSE "declined"

\* app.py 1382-1388: the values bound to the UPDATE's placeholders, all of
\* them computed from the form and the request before the statement runs.
UpdateParams(decision, name, reason_len, ip) ==
    [status |-> NewStatus(decision),
     responded_name |-> IF decision = Some("accept") THEN Some(name) ELSE None,
     responded_ip |-> Some(ip),
     decline_reason |->
         IF decision = Some("decline") THEN Some(reason_len) ELSE None]

\* RespondedRow that leaves the token and its expiry in place.
RespondedRow_KeepsToken(row, p, t) ==
    [row EXCEPT
        !.status = p.status,
        !.responded_at = Some(t),
        !.responded_name = p.responded_name,
        !.responded_ip = p.responded_ip,
        !.decline_reason = p.decline_reason]

\* app.py 1371-1381: the row after the UPDATE (responded_at is read from the
\* clock when the statement runs).
RespondedRow(row, p, t) ==
    [row EXCEPT
        !.status = p.status,
        !.responded_at = Some(t),
        !.responded_name = p.responded_name,
        !.responded_ip = p.responded_ip,
        !.decline_reason = p.decline_reason,
        !.accept_token = None,
        !.accept_expires_at = None]

\* NewProposalRow with timedelta(hours=14) in place of timedelta(days=14).
NewProposalRow_Hours(token, t) ==
    [status |-> "pending",
     responded_at |-> None,
     responded_name |-> None,
     responded_ip |-> None,
     decline_reason |-> None,
     accept_token |-> Some(token),
     accept_expires_at |-> Some(t + ACCEPT_EXPIRY_DAYS * 3600)]

\* app.py 980-1020: the row /pdf inserts.  The columns that no statement ever
\* updates (created_at, business_name, client_email, proposal_text,
\* proposal_hash) are left out of the row.
NewProposalRow(token, t) ==
    [status |-> "pending",
     responded_at |-> None,
     responded_name |-> None,
     responded_ip |-> None,
     decline_reason |-> None,
     accept_token |-> Some(token),
     accept_expires_at |-> Some(t + ACCEPT_EXPIRY_DAYS * SECONDS_PER_DAY)]

-----------------------------------------------------------------------------
Init ==
    /\ now = 0
    /\ proposals = <<>>
    /\ free_usage = <<>>
    /\ ip_hits = [ip \in RateIds |-> <<>>]
    /\ reqs = [w \in Workers |-> Idle]
    /\ resp = [op |-> "none"]
    /\ committed = [k \in Keys |-> 0]
    /\ rate_log = [ip \in RateIds |-> <<>>]
    /\ magic_email_hits = [e \in Emails |-> <<>>]
    /\ pro_devices = [c \in CustomerIds |-> <<>>]
    /\ issued = {}
    /\ data = BaseInput
    /\ ai_proposal_cache = {}

\* A new request is served by a worker that is idle.  Idle workers are
\* interchangeable, so the one of least number takes it.
Free(w) ==
    /\ reqs[w] = Idle
    /\ \A v \in Workers : reqs[v] = Idle => w <= v

\* The clock of the acceptance workflow advances.
TickAccept ==
    /\ now + AcceptTickStep <= MaxAcceptTicks * AcceptTickStep
    /\ now' = now + AcceptTickStep
    /\ UNCHANGED <<proposals, free_usage, ip_hits, reqs, resp, committed, ext>>

\* POST /pdf (app.py 937-1023), up to the commit of the INSERT.
Pdf(pro, oversize, id, token) ==
    /\ IF ~pro
         THEN /\ resp' = [op |-> "pdf", code |-> 302, to |-> "/upgrade"]
              /\ UNCHANGED proposals
         ELSE IF oversize
         THEN /\ resp' = [op |-> "pdf", code |-> 413]
              /\ UNCHANGED proposals
         ELSE IF id \in DOMAIN proposals
         THEN /\ resp' = [op |-> "pdf", code |-> 500]
              /\ UNCHANGED proposals
         ELSE /\ proposals' = proposals @@ (id :> NewProposalRow(token, now))
              /\ resp' = [op |-> "pdf", code |-> 200]
    /\ UNCHANGED <<now, free_usage, ip_hits, reqs, committed, ext>>

\* GET /accept/<id> (app.py 1295-1329).
AcceptGet(id, token) ==
    /\ resp' = ViewOutcome(id, token)
    /\ UNCHANGED <<now, proposals, free_usage, ip_hits, reqs, committed, ext>>

\* POST /accept/<id>, first part (app.py 1335-1367): read the form, validate,
\* SELECT the proposal and check status, token and expiry.
AcceptPostCheck(w, id, decision, raw_name, reason_len, token, ip) ==
    LET code == PostOutcome(id, decision, raw_name, reason_len, token) IN
    /\ Free(w)
    /\ IF code # 0
         THEN /\ resp' = [op |-> "post", code |-> code]
              /\ UNCHANGED reqs
         ELSE /\ reqs' = [reqs EXCEPT ![w] =
                    [pc |-> "accept_update", id |-> id,
                     params |-> UpdateParams(decision, Strip(raw_name),
                                             reason_len, ip)]]
              /\ UNCHANGED resp
    /\ UNCHANGED <<now, proposals, free_usage, ip_hits, committed, ext>>

\* POST /accept/<id>, second part (app.py 1369-1394): UPDATE ... WHERE id = ?,
\* commit, redirect.
AcceptPostUpdate(w) ==
    /\ reqs[w].pc = "accept_update"
    /\ LET r == reqs[w] IN
        /\ proposals' = [proposals EXCEPT ![r.id] =
               RespondedRow(@, r.params, now)]
        /\ resp' = [op |-> "post", code |-> 302]
    /\ reqs' = [reqs EXCEPT ![w] = Idle]
    /\ UNCHANGED <<now, free_usage, ip_hits, committed, ext>>

NextAccept ==
    \/ TickAccept
    \/ \E pro \in BOOLEAN, oversize \in BOOLEAN,
          id \in PropIds, token \in Tokens :
            Pdf(pro, oversize, id, token)
    \/ \E id \in PropIds, token \in FormTokens : AcceptGet(id, token)
    \/ \E w \in Workers, id \in PropIds, decision \in Decisions,
          raw_name \in RawNames, reason_len \in ReasonLens,
          token \in FormTokens, ip \in IPs :
            AcceptPostCheck(w, id, decision, raw_name, reason_len, token, ip)
    \/ \E w \in Workers : AcceptPostUpdate(w)

SpecAccept == Init /\ [][NextAccept]_vars

-----------------------------------------------------------------------------
(* Signed cookies                                                          *)

\* app.py 106: the salt of _signer.
SIGNER_SALT == "gtj-free-limit"

\* URLSafeSerializer(secret, salt).dumps: the token names the key and the
\* salt its signature was made with.
Dumps(salt, payload) == [key |-> "SECRET_KEY", salt |-> salt, payload |-> payload]

\* URLSafeSerializer(secret, salt).loads: the payload, or None on
\* BadSignature (a token signed with another key or another salt).
Loads(salt, raw) ==
    IF raw.key = "SECRET_KEY" /\ raw.salt = salt THEN Some(raw.payload) ELSE None

\* A token that the server did not sign.
Forged(payload) == [key |-> "guess", salt |-> SIGNER_SALT, payload |-> payload]

\* The cookies a request may carry.
CookieJars ==
    [gtj_pro : {None, Some("1")},
     gtj_device : {None} \cup {Some(Dumps(SIGNER_SALT, d)) : d \in DeviceIds}
                         \cup {Some(Forged(d)) : d \in DeviceIds},
     gtj_customer : {None} \cup {Some(Dumps(SIGNER_SALT, c)) : c \in CustomerIds}]

\* app.py 357-364 and 380-387: get_device_cookie, get_customer_cookie.
GetSignedCookie(raw) ==
    IF raw = None THEN None ELSE Loads(SIGNER_SALT, Val(raw))

\* app.py 318-328
IsProUser(jar) ==
    /\ jar.gtj_pro = Some("1")
    /\ ~Falsy(GetSignedCookie(jar.gtj_device))
    /\ ~Falsy(GetSignedCookie(jar.gtj_customer))

\* app.py 389-397
GetFreeUsageKey(jar, ip) ==
    LET device == GetSignedCookie(jar.gtj_device) IN
    IF ~Falsy(device) THEN <<"device", Val(device)>> ELSE <<"ip", ip>>

-----------------------------------------------------------------------------
(* Rate limiter (app.py 239-251)                                           *)

\* DropOld with "q[0] <= window_start": a hit exactly 60 seconds old is
\* dropped too.
RECURSIVE DropOld_Inclusive(_, _)
DropOld_Inclusive(q, window_start) ==
    IF q # <<>> /\ Head(q) <= window_start
    THEN DropOld_Inclusive(Tail(q), window_start)
    ELSE q

\* The loop "while q and q[0] < window_start: q.popleft()".
RECURSIVE DropOld(_, _)
DropOld(q, window_start) ==
    IF q # <<>> /\ Head(q) < window_start
    THEN DropOld(Tail(q), window_start)
    ELSE q

\* The value is_rate_limited returns.
IsRateLimited(q, t) ==
    Len(DropOld(q, t - RATE_WINDOW)) >= RATE_LIMIT_PER_MINUTE

\* HitsAfter with the append moved before the test of the ceiling: a rejected
\* call is recorded too.
HitsAfter_AlwaysAppend(q, t) == Append(DropOld(q, t - RATE_WINDOW), t)

\* The deque is_rate_limited leaves behind.
HitsAfter(q, t) ==
    IF IsRateLimited(q, t)
    THEN DropOld(q, t - RATE_WINDOW)
    ELSE Append(DropOld(q, t - RATE_WINDOW), t)

\* The clock of the rate limiter advances.
TickRate(d) ==
    /\ now + d <= MaxRateClock
    /\ now' = now + d
    /\ UNCHANGED <<proposals, free_usage, ip_hits, reqs, resp, committed, ext>>

\* One call is_rate_limited(ip) (app.py 239-251), as made by a handler
\* (app.py 406-408, 819-820); calls are sequential.  The call and its result
\* are added to the history of the identity.
RateCall(ip) ==
    /\ Len(rate_log[ip]) < MaxRateCalls
    /\ ip_hits' = [ip_hits EXCEPT ![ip] = HitsAfter(@, now)]
    /\ resp' = [op |-> "rate", ip |-> ip,
                limited |-> IsRateLimited(ip_hits[ip], now)]
    /\ rate_log' = [rate_log EXCEPT ![ip] =
           Append(@, [t |-> now, limited |-> IsRateLimited(ip_hits[ip], now)])]
    /\ UNCHANGED <<now, dbVars, ai_proposal_cache, reqs, magic_email_hits, pro_devices, issued,
                   data>>

NextRate ==
    \/ \E d \in RateTickSteps : TickRate(d)
    \/ \E ip \in RateIds : RateCall(ip)

SpecRate == Init /\ [][NextRate]_vars

\* is_rate_limited(ip) called by concurrent requests: the server runs a
\* thread for each request (app.run, app.py 1448) and the function takes no
\* lock, so another thread may run between the test of the ceiling and the
\* append.  First part (app.py 240-248): the clock is read, the old hits
\* are dropped and the ceiling is tested.
RateEnter(w, ip) ==
    /\ Free(w)
    /\ Len(rate_log[ip]) < MaxRateCalls
    /\ ip_hits' = [ip_hits EXCEPT ![ip] = DropOld(@, now - RATE_WINDOW)]
    /\ IF IsRateLimited(ip_hits[ip], now)
         THEN /\ resp' = [op |-> "rate", ip |-> ip, limited |-> TRUE]
              /\ rate_log' = [rate_log EXCEPT ![ip] =
                     Append(@, [t |-> now, limited |-> TRUE])]
              /\ UNCHANGED reqs
         ELSE /\ reqs' = [reqs EXCEPT ![w] =
                    [pc |-> "rate_append", ip |-> ip, now |-> now]]
              /\ UNCHANGED <<resp, rate_log>>
    /\ UNCHANGED <<now, dbVars, ai_proposal_cache, magic_email_hits,
                   pro_devices, issued, data>>

\* Second part (app.py 250-251): q.append(now), return False.
RateAppend(w) ==
    /\ reqs[w].pc = "rate_append"
    /\ LET r == reqs[w] IN
        /\ ip_hits' = [ip_hits EXCEPT ![r.ip] = Append(@, r.now)]
        /\ resp' = [op |-> "rate", ip |-> r.ip, limited |-> FALSE]
        /\ rate_log' = [rate_log EXCEPT ![r.ip] =
               Append(@, [t |-> r.now, limited |-> FALSE])]
    /\ reqs' = [reqs EXCEPT ![w] = Idle]
    /\ UNCHANGED <<now, dbVars, ai_proposal_cache, magic_email_hits,
                   pro_devices, issued, data>>

NextRateRace ==
    \/ \E d \in RateTickSteps : TickRate(d)
    \/ \E w \in Workers, ip \in IPs : RateEnter(w, ip)
    \/ \E w \in Workers : RateAppend(w)

SpecRateRace == Init /\ [][NextRateRace]_vars

-----------------------------------------------------------------------------
(* Usage ledger (db.py 158-174)                                            *)

\* db.py 158-163
GetFreeUsage(fu, key) ==
    IF key \in DOMAIN fu THEN fu[key].used_count ELSE 0

\* INSERT OR REPLACE in place of the upsert: the count starts again at 1.
IncrementFreeUsage_Replace(fu, key) ==
    IF key \in DOMAIN fu
    THEN [fu EXCEPT ![key] = [used_count |-> 1]]
    ELSE fu @@ (key :> [used_count |-> 1])

\* INSERT OR IGNORE in place of the upsert: an existing row stays as it is.
IncrementFreeUsage_Ignore(fu, key) ==
    IF key \in DOMAIN fu
    THEN fu
    ELSE fu @@ (key :> [used_count |-> 1])

\* db.py 166-174: INSERT ... ON CONFLICT(key) DO UPDATE, one statement.  The
\* row is modelled by used_count; last_used_at, which the same statement
\* sets to the current time, is read by no code and is left out.
IncrementFreeUsage(fu, key) ==
    IF key \in DOMAIN fu
    THEN [fu EXCEPT ![key] = [used_count |-> @.used_count + 1]]
    ELSE fu @@ (key :> [used_count |-> 1])

\* The quota test with > in place of >=.
QuotaReached_Above(used) == used > FREE_LIMIT

\* app.py 840
QuotaReached(used) == used >= FREE_LIMIT

\* app.py 819-882: how far POST /generate gets before it builds the text:
\* "rate" (429, blocked by the rate limiter), "free" (blocked by the quota),
\* "too_large" (413 from _reject_if_too_large) or "build".
GenOutcome(ip, jar, oversize) ==
    IF IsRateLimited(ip_hits[ip], now) THEN "rate"
    ELSE IF ~IsProUser(jar)
            /\ QuotaReached(GetFreeUsage(free_usage, GetFreeUsageKey(jar, ip)))
    THEN "free"
    ELSE IF oversize THEN "too_large"
    ELSE "build"

\* The response of a blocked or aborted POST /generate.
GenBlockedResponse(outcome) ==
    CASE outcome = "rate" ->
           [op |-> "gen", code |-> 429, blocked |-> TRUE, block_reason |-> "rate"]
      [] outcome = "free" ->
           [op |-> "gen", code |-> 200, blocked |-> TRUE, block_reason |-> "free"]
      [] outcome = "too_large" ->
           [op |-> "gen", code |-> 413, blocked |-> FALSE, block_reason |-> "none"]

\* The clock of the usage ledger advances.
TickLedger ==
    /\ now + LedgerTickStep <= MaxLedgerTicks * LedgerTickStep
    /\ now' = now + LedgerTickStep
    /\ UNCHANGED <<proposals, free_usage, ip_hits, reqs, resp, committed, ext>>

\* POST /generate, first part (app.py 815-882): rate limiter, quota check
\* (SELECT used_count), input collection and size validation.
GenCheck(w, ip, jar, oversize) ==
    LET outcome == GenOutcome(ip, jar, oversize)
        pro == IsProUser(jar)
        key == GetFreeUsageKey(jar, ip)
    IN
    /\ Free(w)
    /\ ip_hits' = [ip_hits EXCEPT ![ip] = HitsAfter(@, now)]
    /\ IF outcome # "build"
         THEN /\ resp' = GenBlockedResponse(outcome)
              /\ UNCHANGED reqs
         ELSE /\ reqs' = [reqs EXCEPT ![w] =
                    [pc |-> "gen_build", pro |-> pro, key |-> key,
                     used |-> IF pro THEN 0 ELSE GetFreeUsage(free_usage, key)]]
              /\ UNCHANGED resp
    /\ UNCHANGED <<now, proposals, free_usage, committed, ext>>

\* POST /generate, second part (app.py 888): build_proposal_text(data)
\* produces the text.
GenBuild(w) ==
    /\ reqs[w].pc = "gen_build"
    /\ reqs' = [reqs EXCEPT ![w].pc = "gen_count"]
    /\ UNCHANGED <<now, proposals, free_usage, ip_hits, resp, committed, ext>>

\* POST /generate, third part (app.py 890-930): increment_free_usage and
\* commit for a client that is not Pro, then the response.  The remaining
\* count shown is max(FREE_LIMIT - used, 0), or None for the "unlimited" of a
\* Pro client.
GenCount(w) ==
    /\ reqs[w].pc = "gen_count"
    /\ LET r == reqs[w] IN
        /\ IF r.pro
             THEN /\ UNCHANGED <<free_usage, committed>>
                  /\ resp' = [op |-> "gen", code |-> 200, blocked |-> FALSE,
                              remaining |-> None]
             ELSE /\ free_usage' = IncrementFreeUsage(free_usage, r.key)
                  /\ committed' = [committed EXCEPT ![r.key] = @ + 1]
                  /\ resp' = [op |-> "gen", code |-> 200, blocked |-> FALSE,
                              remaining |->
                                  IF FREE_LIMIT - (r.used + 1) > 0
                                  THEN Some(FREE_LIMIT - (r.used + 1))
                                  ELSE Some(0)]
    /\ reqs' = [reqs EXCEPT ![w] = Idle]
    /\ UNCHANGED <<now, proposals, ip_hits, ext>>

NextLedger ==
    \/ TickLedger
    \/ \E w \in Workers, ip \in IPs, jar \in CookieJars, oversize \in BOOLEAN :
            GenCheck(w, ip, jar, oversize)
    \/ \E w \in Workers : GenBuild(w)
    \/ \E w \in Workers : GenCount(w)

SpecLedger == Init /\ [][NextLedger]_vars

-----------------------------------------------------------------------------
(* Signed token codec, by purpose (app.py 106-114)                         *)

\* app.py 112: the salt of _magic_signer.
MAGIC_LINK_SALT == "magic-link"

\* The JSON payload of a token: a string s is Text(s), the dict of a magic
\* link carries its email in v.
Text(s) == [v |-> s, purpose |-> "", exp |-> 0]

\* The purposes a signed token is minted for.
TokenKinds == {"used", "device", "customer", "track", "magic"}

\* str(used) for the counts the ledger allows, and the strings int() parses.
UsedCounts == 1..FREE_LIMIT
StrOf(n) == CASE n = 1 -> "1" [] n = 2 -> "2" [] n = 3 -> "3" [] OTHER -> "0"
Numeric == {"0", "1", "2", "3"}

\* secrets.token_urlsafe(16) of the track cookie.
TrackIds == {"k1"}

\* app.py 306-307, 345-346, 368-369, 160: the cookies signed by _signer.
SetUsedCookie(used) == Dumps(SIGNER_SALT, Text(StrOf(used)))
SetDeviceCookie(device_id) == Dumps(SIGNER_SALT, Text(device_id))
SetCustomerCookie(customer_id) == Dumps(SIGNER_SALT, Text(customer_id))
SetTrackCookie(token) == Dumps(SIGNER_SALT, Text(token))

\* app.py 169-175
GenerateMagicToken(email, purpose, t) ==
    Dumps(MAGIC_LINK_SALT,
          [v |-> email, purpose |-> purpose, exp |-> t + MAGIC_LINK_TTL_SECONDS])

\* A magic token the server did not sign.
ForgedMagic(email, purpose) ==
    [key |-> "guess", salt |-> MAGIC_LINK_SALT,
     payload |-> [v |-> email, purpose |-> purpose,
                  exp |-> MaxMagicClock + MAGIC_LINK_TTL_SECONDS]]

\* _signer.loads of a cookie that may be absent: the string, or None.
LoadsText(raw) ==
    IF raw = None THEN None
    ELSE IF Loads(SIGNER_SALT, Val(raw)) = None THEN None
    ELSE Some(Val(Loads(SIGNER_SALT, Val(raw))).v)

\* app.py 254-261: the count the usage cookie decodes to, None where the
\* function takes its "return 0" exits.
DecodeUsed(raw) ==
    IF Falsy(LoadsText(raw)) \/ Val(LoadsText(raw)) \notin Numeric
    THEN None
    ELSE LoadsText(raw)

\* app.py 357-364, 380-387, 148-153
GetDeviceCookie(raw) == LoadsText(raw)
GetCustomerCookie(raw) == LoadsText(raw)
GetTrackToken(raw) == IF Falsy(LoadsText(raw)) THEN None ELSE LoadsText(raw)

\* app.py 318-328: is_pro_user for a request with the given gtj_pro,
\* gtj_device and gtj_customer cookies.
IsProRequest(gtj_pro, gtj_device, gtj_customer) ==
    /\ gtj_pro = Some("1")
    /\ ~Falsy(GetDeviceCookie(gtj_device))
    /\ ~Falsy(GetCustomerCookie(gtj_customer))

\* GetVerifiedEmail without the comparison of the purpose.
GetVerifiedEmail_AnyPurpose(raw, purpose, t) ==
    IF raw = None THEN None
    ELSE IF Loads(MAGIC_LINK_SALT, Val(raw)) = None THEN None
    ELSE IF t > Val(Loads(MAGIC_LINK_SALT, Val(raw))).exp THEN None
    ELSE Some(Val(Loads(MAGIC_LINK_SALT, Val(raw))).v)

\* app.py 209-225
GetVerifiedEmail(raw, purpose, t) ==
    IF raw = None THEN None
    ELSE IF Loads(MAGIC_LINK_SALT, Val(raw)) = None THEN None
    ELSE IF Val(Loads(MAGIC_LINK_SALT, Val(raw))).purpose # purpose THEN None
    ELSE IF t > Val(Loads(MAGIC_LINK_SALT, Val(raw))).exp THEN None
    ELSE Some(Val(Loads(MAGIC_LINK_SALT, Val(raw))).v)

\* What the decoder of a purpose makes of a token: the decoded value, or
\* None when it fails.
DecodeAs(kind, raw) ==
    CASE kind = "used" -> DecodeUsed(raw)
      [] kind = "device" -> GetDeviceCookie(raw)
      [] kind = "customer" -> GetCustomerCookie(raw)
      [] kind = "track" -> GetTrackToken(raw)
      [] kind = "magic" ->
           IF raw = None \/ Loads(MAGIC_LINK_SALT, Val(raw)) = None
           THEN None
           ELSE Some(Val(Loads(MAGIC_LINK_SALT, Val(raw))).v)

\* The values a client can send as a cookie or link: nothing, a token the
\* server has issued, or a token signed with a guessed key.
Presented ==
    {None} \cup {Some(x.raw) : x \in issued}
           \cup {Some(ForgedMagic(e, p)) :
                    e \in Emails, p \in {"billing", "restore_pro"}}
           \cup {Some(Forged(Text(k))) : k \in TrackIds}

-----------------------------------------------------------------------------
(* Magic links, /restore-pro and /billing-portal                           *)

\* app.py 193-204: the value is_email_rate_limited returns and the deque
\* it leaves behind.
IsEmailRateLimited(q, t) ==
    Len(DropOld(q, t - MAGIC_EMAIL_WINDOW)) >= MAGIC_EMAIL_MAX

EmailHitsAfter(q, t) ==
    IF IsEmailRateLimited(q, t)
    THEN DropOld(q, t - MAGIC_EMAIL_WINDOW)
    ELSE Append(DropOld(q, t - MAGIC_EMAIL_WINDOW), t)

\* len(email)
EmailLen(email) ==
    CASE email = "" -> 0 [] email = "long" -> MAX_EMAIL_LENGTH + 1 [] OTHER -> 6

\* device_id.split(","): the parts of a submitted id.
Parts(device_id) ==
    CASE device_id = "" -> <<>>
      [] device_id = "d2,d3" -> <<"d2", "d3">>
      [] OTHER -> <<device_id>>

\* app.py 628-629 after 643: ",".join(devices) read back and split on ",":
\* every listed id gives its parts.
RECURSIVE SplitJoined(_)
SplitJoined(devices) ==
    IF devices = <<>> THEN <<>>
    ELSE Parts(Head(devices)) \o SplitJoined(Tail(devices))

\* Stripe's customer for an email.
CustomerOf(email) == "c1"

InSeq(x, q) == \E k \in 1..Len(q) : q[k] = x

\* app.py 569-639: how far /restore-pro gets before Customer.modify: the
\* error it renders, or "ok".
RestoreOutcome(raw, device_id, has_customer, has_sub) ==
    LET email == GetVerifiedEmail(raw, "restore_pro", now) IN
    IF Falsy(email) THEN "verification"
    ELSE IF device_id = "" THEN "device"
    ELSE IF ~has_customer THEN "no_subscription"
    ELSE IF ~has_sub THEN "no_subscription"
    ELSE IF ~InSeq(device_id, pro_devices[CustomerOf(Val(email))])
            /\ Len(pro_devices[CustomerOf(Val(email))]) >= MAX_DEVICES
    THEN "device_limit"
    ELSE "ok"

\* app.py 783-808: the status of the response of /billing-portal.
BillingOutcome(raw, has_customer) ==
    IF Falsy(GetVerifiedEmail(raw, "billing", now)) THEN 403
    ELSE IF ~has_customer THEN 302
    ELSE 303

\* The clock of the magic links advances.
TickMagic(d) ==
    /\ now + d <= MaxMagicClock
    /\ now' = now + d
    /\ UNCHANGED <<dbVars, ip_hits, reqs, resp, ext>>

\* POST /request-magic-link (app.py 404-436).
RequestMagicLink(ip, email, purpose) ==
    /\ Len(rate_log[ip]) < MaxLinkRequests
    /\ ip_hits' = [ip_hits EXCEPT ![ip] = HitsAfter(@, now)]
    /\ rate_log' = [rate_log EXCEPT ![ip] =
           Append(@, [t |-> now, limited |-> IsRateLimited(ip_hits[ip], now)])]
    /\ IF IsRateLimited(ip_hits[ip], now)
         THEN /\ resp' = [op |-> "request_link", code |-> 429]
              /\ UNCHANGED <<magic_email_hits, issued>>
         ELSE IF email = "" \/ EmailLen(email) > MAX_EMAIL_LENGTH
         THEN /\ resp' = [op |-> "request_link", code |-> 400]
              /\ UNCHANGED <<magic_email_hits, issued>>
         ELSE IF purpose \notin {"billing", "restore_pro"}
         THEN /\ resp' = [op |-> "request_link", code |-> 400]
              /\ UNCHANGED <<magic_email_hits, issued>>
         ELSE /\ magic_email_hits' =
                    [magic_email_hits EXCEPT ![email] = EmailHitsAfter(@, now)]
              /\ IF IsEmailRateLimited(magic_email_hits[email], now)
                   THEN /\ resp' = [op |-> "request_link", code |-> 429]
                        /\ UNCHANGED issued
                   ELSE /\ issued' = issued \cup
                              {[kind |-> "magic",
                                raw |-> GenerateMagicToken(email, purpose, now)]}
                        /\ resp' = [op |-> "request_link", code |-> 200]
    /\ UNCHANGED <<now, dbVars, ai_proposal_cache, reqs, pro_devices, data>>

\* GET /verify (app.py 440-471).
VerifyMagicLink(token) ==
    /\ IF token = None
         THEN resp' = [op |-> "verify", code |-> 400] /\ UNCHANGED issued
         ELSE IF Loads(MAGIC_LINK_SALT, Val(token)) = None
         THEN resp' = [op |-> "verify", code |-> 403] /\ UNCHANGED issued
         ELSE LET link == Val(Loads(MAGIC_LINK_SALT, Val(token))) IN
              IF now > link.exp
              THEN resp' = [op |-> "verify", code |-> 403] /\ UNCHANGED issued
              ELSE IF link.v = "" \/ link.purpose = ""
              THEN resp' = [op |-> "verify", code |-> 400] /\ UNCHANGED issued
              ELSE /\ resp' = [op |-> "verify", code |-> 302]
                   /\ issued' = issued \cup
                          {[kind |-> "magic",
                            raw |-> Dumps(MAGIC_LINK_SALT, link)]}
    /\ UNCHANGED <<now, dbVars, ai_proposal_cache, ip_hits, reqs, rate_log, magic_email_hits,
                   pro_devices, data>>

\* POST /restore-pro, first part (app.py 569-639): the verified email, the
\* device id, the Stripe customer and subscription, and the device list
\* read by Customer.retrieve.
RestoreCheck(w, raw, device_id, has_customer, has_sub) ==
    LET outcome == RestoreOutcome(raw, device_id, has_customer, has_sub)
        customer_id ==
            CustomerOf(Val(GetVerifiedEmail(raw, "restore_pro", now)))
        devices == pro_devices[customer_id]
    IN
    /\ Free(w)
    /\ IF outcome # "ok"
         THEN /\ resp' = [op |-> "restore", restored |-> FALSE,
                          restore_error |-> outcome]
              /\ UNCHANGED reqs
         ELSE /\ reqs' = [reqs EXCEPT ![w] =
                    [pc |-> "restore_modify", customer_id |-> customer_id,
                     device_id |-> device_id,
                     devices |-> IF InSeq(device_id, devices) THEN devices
                                 ELSE Append(devices, device_id)]]
              /\ UNCHANGED resp
    /\ UNCHANGED <<now, dbVars, ip_hits, ext>>

\* POST /restore-pro, second part (app.py 641-663): Customer.modify writes
\* the joined list, and the response sets the Pro cookies, which join the
\* tokens handed out.
RestoreModify(w) ==
    /\ reqs[w].pc = "restore_modify"
    /\ LET r == reqs[w]
           cookies == {[kind |-> "device", raw |-> SetDeviceCookie(r.device_id)],
                       [kind |-> "customer",
                        raw |-> SetCustomerCookie(r.customer_id)]}
       IN
        /\ pro_devices' = [pro_devices EXCEPT ![r.customer_id] =
               SplitJoined(r.devices)]
        /\ resp' = [op |-> "restore", restored |-> TRUE,
                    restore_error |-> "none"]
        /\ issued' = issued \cup cookies
    /\ reqs' = [reqs EXCEPT ![w] = Idle]
    /\ UNCHANGED <<now, dbVars, ai_proposal_cache, ip_hits, rate_log, magic_email_hits, data>>

\* POST /billing-portal (app.py 783-808).
BillingPortal(raw, has_customer) ==
    /\ resp' = [op |-> "billing", code |-> BillingOutcome(raw, has_customer)]
    /\ UNCHANGED <<now, dbVars, ip_hits, reqs, ext>>

NextMagic ==
    \/ \E d \in MagicTickSteps : TickMagic(d)
    \/ \E ip \in IPs, email \in EmailForms, purpose \in PurposeForms :
            RequestMagicLink(ip, email, purpose)
    \/ \E token \in Presented : VerifyMagicLink(token)
    \/ \E w \in Workers, raw \in Presented, device_id \in MagicDeviceForms,
          has_customer \in BOOLEAN, has_sub \in BOOLEAN :
            RestoreCheck(w, raw, device_id, has_customer, has_sub)
    \/ \E w \in Workers : RestoreModify(w)
    \/ \E raw \in Presented, has_customer \in BOOLEAN :
            BillingPortal(raw, has_customer)

SpecMagic == Init /\ [][NextMagic]_vars

\* /restore-pro with every form of device id, verified by links of the
\* purpose restore_pro.
NextRestore ==
    \/ \E d \in MagicTickSteps : TickMagic(d)
    \/ \E ip \in IPs, email \in Emails :
            RequestMagicLink(ip, email, "restore_pro")
    \/ \E w \in Workers, raw \in Presented, device_id \in DeviceForms,
          has_customer \in BOOLEAN, has_sub \in BOOLEAN :
            RestoreCheck(w, raw, device_id, has_customer, has_sub)
    \/ \E w \in Workers : RestoreModify(w)

SpecRestore == Init /\ [][NextRestore]_vars

-----------------------------------------------------------------------------
(* The cookies signed by _signer                                           *)

\* GET / (app.py 474-486): get_or_set_track_token(resp) keeps a cookie that
\* decodes and sets a fresh one otherwise.
Landing(raw, token) ==
    /\ issued' = IF GetTrackToken(raw) # None THEN issued
                 ELSE issued \cup {[kind |-> "track",
                                    raw |-> SetTrackCookie(token)]}
    /\ resp' = [op |-> "landing", code |-> 200]
    /\ UNCHANGED <<now, dbVars, ai_proposal_cache, ip_hits, reqs, rate_log, magic_email_hits,
                   pro_devices, data>>

\* POST /track (app.py 269-302): the token of the payload and the track
\* cookie must both decode and be equal.
ClientTrack(token, cookie, event) ==
    /\ resp' = [op |-> "track",
                code |-> IF token = None THEN 403
                         ELSE IF LoadsText(token) = None THEN 403
                         ELSE IF cookie = None THEN 403
                         ELSE IF LoadsText(cookie) = None THEN 403
                         ELSE IF LoadsText(token) # LoadsText(cookie) THEN 403
                         ELSE IF ~event THEN 400
                         ELSE 204]
    /\ UNCHANGED <<now, dbVars, ip_hits, reqs, ext>>

\* The end of POST /generate for a client that is not Pro (app.py 927-928):
\* set_used_cookie(resp, used) with the count the response shows.
UsedCookie(used) ==
    /\ issued' = issued \cup {[kind |-> "used", raw |-> SetUsedCookie(used)]}
    /\ resp' = [op |-> "used_cookie", code |-> 200]
    /\ UNCHANGED <<now, dbVars, ai_proposal_cache, ip_hits, reqs, rate_log, magic_email_hits,
                   pro_devices, data>>

\* Every way a signed token is minted, and the handlers that decode one.
NextCodec ==
    \/ \E raw \in Presented, token \in TrackIds : Landing(raw, token)
    \/ \E token \in Presented, cookie \in Presented, event \in BOOLEAN :
            ClientTrack(token, cookie, event)
    \/ \E used \in UsedCounts : UsedCookie(used)
    \/ \E ip \in IPs, purpose \in {"billing", "restore_pro"} :
            RequestMagicLink(ip, "e1", purpose)
    \/ \E token \in Presented : VerifyMagicLink(token)
    \/ \E w \in Workers, raw \in Presented, device_id \in MagicDeviceForms :
            RestoreCheck(w, raw, device_id, TRUE, TRUE)
    \/ \E w \in Workers : RestoreModify(w)

SpecCodec == Init /\ [][NextCodec]_vars

-----------------------------------------------------------------------------
(* Cache key (db.py 122-155)                                               *)

\* db.py 122: AI_CACHE_VERSION = "v1".
AI_CACHE_VERSION == <<"v", "1">>

\* str.strip(): white space of any kind leaves both ends.
RECURSIVE LStripWs(_)
LStripWs(s) == IF s # <<>> /\ Head(s) \in Spaces THEN LStripWs(Tail(s)) ELSE s

RECURSIVE RStripWs(_)
RStripWs(s) ==
    IF s # <<>> /\ s[Len(s)] \in Spaces
    THEN RStripWs(SubSeq(s, 1, Len(s) - 1))
    ELSE s

StripWs(s) == RStripWs(LStripWs(s))

\* str.lower()
LowerChar(c) == IF c = "A" THEN "a" ELSE c
Lower(s) == [k \in 1..Len(s) |-> LowerChar(s[k])]

\* text.replace("\r\n", "\n")
RECURSIVE ReplaceCrLf(_)
ReplaceCrLf(s) ==
    IF s = <<>> THEN <<>>
    ELSE IF Len(s) >= 2 /\ s[1] = "cr" /\ s[2] = "lf"
    THEN <<"lf">> \o ReplaceCrLf(SubSeq(s, 3, Len(s)))
    ELSE <<Head(s)>> \o ReplaceCrLf(Tail(s))

\* text.replace("\r", "\n")
ReplaceCr(s) == [k \in 1..Len(s) |-> IF s[k] = "cr" THEN "lf" ELSE s[k]]

\* re.sub(r"\s+", " ", text)
RECURSIVE CollapseWs(_)
CollapseWs(s) ==
    IF s = <<>> THEN <<>>
    ELSE IF Head(s) \in Spaces
    THEN <<" ">> \o CollapseWs(LStripWs(s))
    ELSE <<Head(s)>> \o CollapseWs(Tail(s))

\* _normalize without lower().
Normalize_NoLower(text) ==
    IF text = <<>> THEN <<>>
    ELSE CollapseWs(ReplaceCr(ReplaceCrLf(StripWs(text))))

\* db.py 125-131: _normalize.  None and "" are both the empty text.
Normalize(text) ==
    IF text = <<>> THEN <<>>
    ELSE CollapseWs(ReplaceCr(ReplaceCrLf(Lower(StripWs(text)))))

\* HashParts without the scope.
HashParts_NoScope(d) ==
    <<AI_CACHE_VERSION>> \o
    [k \in 1..Len(HashedFields) |->
        IF HashedFields[k] = "scope" THEN <<>> ELSE Normalize(d[HashedFields[k]])]

\* db.py 139-152: parts.
HashParts(d) ==
    <<AI_CACHE_VERSION>> \o
    [k \in 1..Len(HashedFields) |-> Normalize(d[HashedFields[k]])]

\* "\n".join(parts)
RECURSIVE JoinLines(_)
JoinLines(parts) ==
    IF parts = <<>> THEN <<>>
    ELSE IF Len(parts) = 1 THEN parts[1]
    ELSE parts[1] \o <<"lf">> \o JoinLines(Tail(parts))

\* hashlib.sha256(...).hexdigest(): the digest stands for the text hashed;
\* two different texts have different digests.
Sha256(text) == [sha256 |-> text]

\* db.py 154-155
AiInputHash(d) == Sha256(JoinLines(HashParts(d)))

\* The number of fields in which the input differs from the input at the
\* start.
Changed(d) == Cardinality({f \in AllFields : d[f] # BaseInput[f]})

\* One field of the input is replaced, and ai_input_hash (db.py 134-155) is
\* applied to the new input.
HashInput(field, text) ==
    /\ Changed([data EXCEPT ![field] = text]) <= MaxChanged
    /\ data' = [data EXCEPT ![field] = text]
    /\ resp' = [op |-> "hash", key |-> AiInputHash(data')]
    /\ UNCHANGED <<now, dbVars, ai_proposal_cache, ip_hits, reqs, proVars>>

NextKey == \E field \in AllFields, text \in FieldTexts : HashInput(field, text)

SpecKey == Init /\ [][NextKey]_vars

-----------------------------------------------------------------------------
(* Fallback proposal (proposal_builder.py 237-306)                         *)

\* A line of a document: its kind, the number of a section heading (0 for
\* the other lines) and its text, a sequence of fixed phrases and of the
\* characters of form fields.
Line(kind, n, text) == [kind |-> kind, n |-> n, text |-> text]
Blank == Line("blank", 0, <<>>)

\* str.splitlines(): the lines between the line endings lf, cr and cr lf.
RECURSIVE SplitLines(_, _)
SplitLines(s, line) ==
    IF s = <<>> THEN (IF line = <<>> THEN <<>> ELSE <<line>>)
    ELSE IF Len(s) >= 2 /\ s[1] = "cr" /\ s[2] = "lf"
    THEN <<line>> \o SplitLines(SubSeq(s, 3, Len(s)), <<>>)
    ELSE IF Head(s) \in {"cr", "lf"}
    THEN <<line>> \o SplitLines(Tail(s), <<>>)
    ELSE SplitLines(Tail(s), Append(line, Head(s)))

\* line.lstrip("- ")
RECURSIVE LStripMarker(_)
LStripMarker(s) ==
    IF s # <<>> /\ Head(s) \in {"-", " "} THEN LStripMarker(Tail(s)) ELSE s

\* proposal_builder.py 269-275: the lines of the Scope of Work section.
RECURSIVE ScopeBullets(_)
ScopeBullets(lines) ==
    IF lines = <<>> THEN <<>>
    ELSE LET clean == StripWs(LStripMarker(Head(lines))) IN
         (IF clean # <<>> THEN <<Line("bullet", 0, <<"- ">> \o clean)>>
                          ELSE <<>>)
         \o ScopeBullets(Tail(lines))

\* BuildFallbackProposal with the number of the Pricing section fixed at 4.
BuildFallbackProposal_FixedIndex(d) ==
    LET timeframe == StripWs(d.timeframe)
        price == StripWs(d.price)
    IN  <<Line("title", 0, <<"Proposal for: ">> \o StripWs(d.client_name)),
          Blank, Line("heading", 1, <<"Overview">>),
          Line("body", 0, <<"This proposal outlines the scope of works">>),
          Blank, Line("heading", 2, <<"Scope of Work">>),
          Line("bullet", 0, <<"- Details to be confirmed">>), Blank>>
        \o (IF timeframe # <<>>
            THEN <<Line("heading", 3, <<"Timeframe">>),
                   Line("body", 0, timeframe), Blank>>
            ELSE <<>>)
        \o <<Line("heading", 4, <<"Pricing">>),
             Line("body", 0, IF price # <<>> THEN price
                             ELSE <<"Pricing to be confirmed.">>),
             Blank, Line("heading", 5, <<"Acceptance / Next Steps">>),
             Line("body", 0, <<"Please review the details above">>),
             Blank, Line("closing", 0, <<"Kind regards,">>)>>

\* proposal_builder.py 237-306: the lines of the fallback proposal.
BuildFallbackProposal(d) ==
    LET client == StripWs(d.client_name)
        service == StripWs(d.service_type)
        scope == StripWs(d.scope)
        price == StripWs(d.price)
        timeframe == StripWs(d.timeframe)
        business == StripWs(d.your_business)
        section_index == IF timeframe # <<>> THEN 4 ELSE 3
    IN  <<Line("title", 0, <<"Proposal for: ">> \o client), Blank>>
        \o <<Line("heading", 1, <<"Overview">>),
             Line("body", 0,
                  <<"This proposal outlines the scope of works for ">>
                  \o service
                  \o (IF business # <<>>
                      THEN <<" to be carried out by ">> \o business
                      ELSE <<>>)
                  \o <<". The work will be completed in accordance with standard trade practices and applicable requirements.">>),
             Blank>>
        \o <<Line("heading", 2, <<"Scope of Work">>)>>
        \o (IF scope # <<>> THEN ScopeBullets(SplitLines(scope, <<>>))
            ELSE <<Line("bullet", 0, <<"- Details to be confirmed">>)>>)
        \o <<Blank>>
        \o (IF timeframe # <<>>
            THEN <<Line("heading", 3, <<"Timeframe">>),
                   Line("body", 0, timeframe), Blank>>
            ELSE <<>>)
        \o <<Line("heading", section_index, <<"Pricing">>),
             Line("body", 0, IF price # <<>> THEN price
                             ELSE <<"Pricing to be confirmed.">>),
             Blank>>
        \o <<Line("heading", section_index + 1, <<"Acceptance / Next Steps">>),
             Line("body", 0,
                  <<"Please review the details above and contact us by phone or email to confirm acceptance or discuss any questions. If you have any modifications please feel free to contact us">>),
             Blank,
             Line("closing", 0, <<"Kind regards,">>)>>
        \o (IF business # <<>> THEN <<Line("signature", 0, business)>>
                               ELSE <<>>)

\* build_fallback_proposal is applied to an input.  It has no parameter
\* but the input and makes no call: the response counts no provider call.
BuildFallback(d) ==
    /\ data' = d
    /\ resp' = [op |-> "fallback", calls |-> 0, text |-> BuildFallbackProposal(d)]
    /\ UNCHANGED <<now, dbVars, ai_proposal_cache, ip_hits, reqs, proVars>>

NextFallback == \E d \in FallbackInputs : BuildFallback(d)

SpecFallback == Init /\ [][NextFallback]_vars

-----------------------------------------------------------------------------
(* Two-pass generation (ai_engine.py 11-208)                               *)

\* value or default
OrDefault(text, default) == IF text = <<>> THEN default ELSE text

\* "\n".join of lines of characters
RECURSIVE JoinChars(_)
JoinChars(lines) ==
    IF lines = <<>> THEN <<>>
    ELSE IF Len(lines) = 1 THEN Head(lines)
    ELSE Head(lines) \o <<"lf">> \o JoinChars(Tail(lines))

\* ai_engine.py 100-104: a bullet for every scope line that is not blank,
\* its leading markers stripped.
RECURSIVE MechanicalLines(_)
MechanicalLines(lines) ==
    IF lines = <<>> THEN <<>>
    ELSE (IF StripWs(Head(lines)) # <<>>
          THEN <<<<"-", " ">> \o StripWs(LStripMarker(Head(lines)))>>
          ELSE <<>>)
         \o MechanicalLines(Tail(lines))

MechanicalBullets(scope_notes) ==
    StripWs(JoinChars(MechanicalLines(SplitLines(scope_notes, <<>>))))

\* The text the provider returns for a prompt is the provider's choice; the
\* model names it by the prompt it answers.
ProviderText(prompt) == <<"completion of: ">> \o prompt

\* ai_engine.py 70-88: the part of the pass 1 prompt that varies.
ScopePrompt(d) ==
    StripWs(d.trade_profile)
    \o <<"Business: ">> \o StripWs(OrDefault(d.your_business, <<"Your Business">>))
    \o <<"Client: ">> \o StripWs(OrDefault(d.client_name, <<"Client">>))
    \o <<"Service: ">> \o StripWs(OrDefault(d.service_type, <<"Service">>))
    \o <<"Scope notes: ">> \o StripWs(d.scope)

\* LockedScope that takes the default bullet when pass 1 raises.
LockedScope_NoMechanical(d, pass1) ==
    IF pass1 = "text" THEN ProviderText(ScopePrompt(d))
    ELSE <<"- Client to confirm scope details">>

\* ai_engine.py 90-107: the locked scope bullets.
LockedScope(d, pass1) ==
    LET got == IF pass1 = "raise" THEN MechanicalBullets(StripWs(d.scope))
               ELSE IF pass1 = "text" THEN ProviderText(ScopePrompt(d))
               ELSE <<>>
    IN  OrDefault(got, <<"- Client to confirm scope details">>)

\* ai_engine.py 52-65: the guidance of a tone, Professional for the others.
ToneInstruction(tone) ==
    IF tone \in {<<"Friendly">>, <<"Direct">>} THEN <<"guidance: ">> \o tone
    ELSE <<"guidance: ", "Professional">>

\* ai_engine.py 112-190: the part of the pass 2 prompt that varies.
ProposalPrompt(d, locked_scope) ==
    LET timeframe == StripWs(d.timeframe)
        client_name == StripWs(OrDefault(d.client_name, <<"Client">>))
        your_business ==
            StripWs(OrDefault(d.your_business, <<"Your Business">>))
        pricing_idx == IF timeframe # <<>> THEN 4 ELSE 3
    IN  StripWs(d.trade_profile)
        \o <<"Business: ">> \o your_business
        \o <<"Client: ">> \o client_name
        \o <<"Service: ">> \o StripWs(OrDefault(d.service_type, <<"Service">>))
        \o ToneInstruction(StripWs(OrDefault(d.tone, <<"Professional">>)))
        \o <<"Locked Scope of Work bullets: ">> \o locked_scope
        \o (IF timeframe # <<>> THEN <<"Timeframe: ">> \o timeframe ELSE <<>>)
        \o <<"Price: ">>
        \o OrDefault(StripWs(d.price), <<"To be confirmed">>)
        \o <<"Proposal for: ">> \o client_name
        \o <<"1. Overview", "2. Scope of Work">>
        \o (IF timeframe # <<>> THEN <<"3. Timeframe">> ELSE <<>>)
        \o (IF pricing_idx = 3 THEN <<"3. Pricing", "4. Acceptance / Next Steps">>
            ELSE <<"4. Pricing", "5. Acceptance / Next Steps">>)
        \o <<"Kind regards,">> \o your_business

\* The document the provider writes in pass 2.
AiDocument(d, pass1) ==
    <<Line("ai", 0, ProviderText(ProposalPrompt(d, LockedScope(d, pass1))))>>

\* GenerateProposalAi that returns the text of pass 2 even when it is empty.
GenerateProposalAi_AcceptsEmpty(d, has_key, pass1, pass2) ==
    IF has_key /\ StripWs(d.scope) # <<>> /\ pass2 # "raise"
    THEN [ok |-> TRUE, calls |-> 2, error |-> "none",
          text |-> IF pass2 = "text" THEN AiDocument(d, pass1) ELSE <<>>]
    ELSE [ok |-> FALSE, calls |-> 0, error |-> "RuntimeError", text |-> <<>>]

\* ai_engine.py 11-208: the result of generate_proposal_ai and the number
\* of calls it makes of the provider.
GenerateProposalAi(d, has_key, pass1, pass2) ==
    IF ~has_key
    THEN [ok |-> FALSE, calls |-> 0, error |-> "RuntimeError", text |-> <<>>]
    ELSE IF StripWs(d.scope) = <<>>
    THEN [ok |-> FALSE, calls |-> 0, error |-> "ValueError", text |-> <<>>]
    ELSE IF pass2 = "text"
    THEN [ok |-> TRUE, calls |-> 2, error |-> "none",
          text |-> AiDocument(d, pass1)]
    ELSE [ok |-> FALSE, calls |-> 2, error |-> "RuntimeError", text |-> <<>>]

\* ai_engine.py 90-97 and 192-199: the calls of client.responses.create
\* that generate_proposal_ai makes, in order, each with its prompt.
ProviderCalls(d, has_key, pass1, pass2) ==
    IF ~has_key \/ StripWs(d.scope) = <<>> THEN <<>>
    ELSE <<[pass |-> 1, prompt |-> ScopePrompt(d)],
           [pass |-> 2, prompt |-> ProposalPrompt(d, LockedScope(d, pass1))]>>

\* generate_proposal_ai is applied to an input, with or without an API key
\* in the environment, and the provider answers its calls.
GenerateAi(d, has_key, pass1, pass2) ==
    /\ data' = d
    /\ resp' = [op |-> "generate", has_key |-> has_key, pass1 |-> pass1,
                pass2 |-> pass2,
                result |-> GenerateProposalAi(d, has_key, pass1, pass2),
                sent |-> ProviderCalls(d, has_key, pass1, pass2)]
    /\ UNCHANGED <<now, dbVars, ai_proposal_cache, ip_hits, reqs, proVars>>

NextGenerate ==
    \E d \in AiInputs, has_key \in BOOLEAN, pass1 \in ProviderOutcomes,
       pass2 \in ProviderOutcomes : GenerateAi(d, has_key, pass1, pass2)

SpecGenerate == Init /\ [][NextGenerate]_vars

-----------------------------------------------------------------------------
(* Proposal cache (proposal_builder.py 123-231, db.py 177-194)             *)

\* proposal_builder.py 11-112: the known trades, all ending in no space.
TradeNames ==
    {<<"electrician">>, <<"plumber">>, <<"builder">>, <<"hvac">>,
     <<"carpenter">>, <<"tiler">>, <<"painter">>, <<"landscaper">>,
     <<"concreter">>, <<"roofer">>, <<"glazier">>, <<"flooring">>,
     <<"handyman">>, <<"cleaner">>, <<"general">>}

\* proposal_builder.py 132-136: the input with its trade profile.
WithProfile(d) ==
    LET trade == Lower(StripWs(OrDefault(d.trade, <<"general">>)))
    IN  [d EXCEPT !.trade_profile =
            <<"profile of ">>
            \o (IF trade \in TradeNames THEN trade ELSE <<"general">>)]

\* EvictOldAiCache that drops the rows of the cutoff second as well.
EvictOldAiCache_Inclusive(rows, t) ==
    {r \in rows : ~(r.last_used_at <= t - CACHE_DAYS * SECONDS_PER_DAY)}

\* db.py 177-194: the rows that the DELETE of evict_old_ai_cache leaves.
EvictOldAiCache(rows, t) ==
    {r \in rows : ~(r.last_used_at < t - CACHE_DAYS * SECONDS_PER_DAY)}

\* The rows of a key.
RowsOf(rows, key) == {r \in rows : r.input_hash = key}

\* Touched that resets created_at as well.
Touched_Recreated(r, t) == [r EXCEPT !.last_used_at = t, !.created_at = t]

\* proposal_builder.py 164-171: UPDATE ... SET last_used_at = ?
Touched(r, t) == [r EXCEPT !.last_used_at = t]

\* The clock of the cache advances.
TickCache(d) ==
    /\ now + d <= MaxCacheClock
    /\ now' = now + d
    /\ UNCHANGED <<dbVars, ip_hits, reqs, resp, ext>>

\* build_proposal_text up to the end of the lookup (proposal_builder.py
\* 132-184).  The connection sees its own DELETE, so the SELECT reads the
\* rows that the sweep leaves.  On a hit the UPDATE follows and commit()
\* commits it together with the DELETE.  On a miss close() ends the
\* connection without a commit and the DELETE is rolled back.
BuildLookup(w, d) ==
    LET input == WithProfile(d)
        cache_key == AiInputHash(input)
        swept == EvictOldAiCache(ai_proposal_cache, now)
        row == RowsOf(swept, cache_key)
    IN
    /\ Free(w)
    /\ IF row # {}
         THEN /\ ai_proposal_cache' =
                    (swept \ row) \cup {Touched(r, now) : r \in row}
              /\ resp' = [op |-> "build", source |-> "cache", calls |-> 0,
                          error |-> "none",
                          text |-> (CHOOSE r \in row : TRUE).proposal_text]
              /\ data' = input
              /\ UNCHANGED reqs
         ELSE /\ reqs' = [reqs EXCEPT ![w] =
                    [pc |-> "build_generate", data |-> input, now |-> now]]
              /\ UNCHANGED <<ai_proposal_cache, resp, data>>
    /\ UNCHANGED <<now, dbVars, ip_hits, proVars>>

\* build_proposal_text after a miss (proposal_builder.py 189-231):
\* generate_proposal_ai, then the INSERT of the text under the key and the
\* commit.  The INSERT fails when a row of that key exists (input_hash is
\* the primary key); that exception, like those of the generation, ends in
\* the fallback.  The response names the exception caught, as the
\* ai_failed event does.
BuildGenerate(w, has_key, pass1, pass2) ==
    /\ reqs[w].pc = "build_generate"
    /\ LET r == reqs[w]
           cache_key == AiInputHash(r.data)
           g == GenerateProposalAi(r.data, has_key, pass1, pass2)
           stored == g.ok /\ RowsOf(ai_proposal_cache, cache_key) = {}
       IN
        /\ IF stored
             THEN /\ ai_proposal_cache' = ai_proposal_cache \cup
                        {[input_hash |-> cache_key, proposal_text |-> g.text,
                          trade |-> r.data.trade,
                          created_at |-> r.now, last_used_at |-> r.now]}
                  /\ resp' = [op |-> "build", source |-> "ai",
                              calls |-> g.calls, error |-> "none",
                              text |-> g.text]
             ELSE /\ resp' = [op |-> "build", source |-> "fallback",
                              calls |-> g.calls,
                              error |-> IF g.ok THEN "IntegrityError"
                                        ELSE g.error,
                              text |-> BuildFallbackProposal(r.data)]
                  /\ UNCHANGED ai_proposal_cache
        /\ data' = r.data
    /\ reqs' = [reqs EXCEPT ![w] = Idle]
    /\ UNCHANGED <<now, dbVars, ip_hits, proVars>>

NextCache ==
    \/ \E d \in CacheTickSteps : TickCache(d)
    \/ \E w \in Workers, d \in BuildInputs : BuildLookup(w, d)
    \/ \E w \in Workers, has_key \in BOOLEAN,
          pass1 \in {"text", "raise"}, pass2 \in ProviderOutcomes :
            BuildGenerate(w, has_key, pass1, pass2)

SpecCache == Init /\ [][NextCache]_vars

-----------------------------------------------------------------------------
(* Properties of the acceptance workflow                                   *)

\* The inputs of a POST /accept/<id>.
PostInputs ==
    [id : PropIds, decision : Decisions, raw_name : RawNames,
     reason_len : ReasonLens, token : FormTokens]

OutcomeOf(i) ==
    PostOutcome(i.id, i.decision, i.raw_name, i.reason_len, i.token)

\* The form passes the validation of the handler: an accept carries a name
\* that is not blank, a decline a reason of at most 1000 characters.
ValidForm(i) ==
    /\ i.decision = Some("accept") => Strip(i.raw_name) # <<>>
    /\ i.decision = Some("decline") => i.reason_len <= 1000

\* Worker w finishes its UPDATE in this step.
Updates(w) == reqs[w].pc = "accept_update" /\ reqs'[w] = Idle

\* No worker finishes an UPDATE in this step.
NoUpdate == \A w \in Workers : ~Updates(w)

\* C1.  One-shot acceptance.  For a pending proposal with stored token T and
\* an expiry that has not passed, a POST carrying T and a valid accept or
\* decline is admitted with the decided status (accepted or declined), and
\* its UPDATE stores that status and sets accept_token and accept_expires_at
\* to NULL.  Once the proposal is no longer pending, every POST with a valid
\* form and a token (T included) meets 403, and a step in which no UPDATE
\* completes changes no row.
C1_Admit ==
    \A i \in PostInputs :
        (/\ i.decision \in {Some("accept"), Some("decline")}
         /\ ValidForm(i)
         /\ i.id \in DOMAIN proposals
         /\ proposals[i.id].status = "pending"
         /\ i.token # None /\ i.token = proposals[i.id].accept_token
         /\ proposals[i.id].accept_expires_at # None
         /\ now <= Val(proposals[i.id].accept_expires_at))
        => /\ OutcomeOf(i) = 0
           /\ \A ip \in IPs :
                 UpdateParams(i.decision, Strip(i.raw_name), i.reason_len,
                              ip).status
                   = (IF i.decision = Some("accept") THEN "accepted"
                                                     ELSE "declined")

C1_Replay ==
    \A i \in PostInputs :
        (/\ ValidForm(i)
         /\ i.token \in {Some(t) : t \in Tokens}
         /\ i.id \in DOMAIN proposals
         /\ proposals[i.id].status # "pending")
        => OutcomeOf(i) = 403

C1_Step ==
    /\ \A w \in Workers :
          Updates(w) =>
             LET id == reqs[w].id IN
             /\ proposals'[id].status = reqs[w].params.status
             /\ proposals'[id].status \in {"accepted", "declined"}
             /\ proposals'[id].accept_token = None
             /\ proposals'[id].accept_expires_at = None
    /\ NoUpdate =>
          \A id \in DOMAIN proposals : proposals'[id] = proposals[id]

C2_AtMostOneTransition ==
    [][\A w \in Workers :
          Updates(w) => proposals[reqs[w].id].status = "pending"]_vars

\* C3.  Terminal status: once a proposal is accepted or declined, no step
\* changes its status, responded_name, responded_at, responded_ip or
\* decline_reason.
C3_Terminal ==
    [][\A id \in DOMAIN proposals :
          proposals[id].status # "pending" =>
             /\ proposals'[id].status = proposals[id].status
             /\ proposals'[id].responded_name = proposals[id].responded_name
             /\ proposals'[id].responded_at = proposals[id].responded_at
             /\ proposals'[id].responded_ip = proposals[id].responded_ip
             /\ proposals'[id].decline_reason = proposals[id].decline_reason]_vars

\* C4.  A proposal that is not pending has accept_token = NULL and
\* accept_expires_at = NULL, and a row that /pdf creates is pending with a
\* token that is not NULL and an expiry 14 days after the creation.
C4_Rows ==
    \A id \in DOMAIN proposals :
        proposals[id].status # "pending" =>
            /\ proposals[id].accept_token = None
            /\ proposals[id].accept_expires_at = None

C4_Created ==
    \A id \in DOMAIN proposals' :
        id \notin DOMAIN proposals =>
            /\ proposals'[id].status = "pending"
            /\ proposals'[id].accept_token # None
            /\ proposals'[id].accept_expires_at = Some(now + 14 * 86400)

C4_TokenLifecycle == []C4_Rows /\ [][C4_Created]_vars

\* One proposal answered, another one still pending.
C4_Witness ==
    \E a, b \in DOMAIN proposals :
        /\ proposals[a].status = "declined"
        /\ proposals[a].accept_token = None
        /\ proposals[b].status = "pending"
        /\ proposals[b].accept_token # None

\* The case of C5: the POST carries the stored token of a pending proposal
\* whose expiry has passed.
Expired(i) ==
    /\ i.id \in DOMAIN proposals
    /\ proposals[i.id].status = "pending"
    /\ i.token # None /\ i.token = proposals[i.id].accept_token
    /\ proposals[i.id].accept_expires_at # None
    /\ now > Val(proposals[i.id].accept_expires_at)

\* C5 as stated.  Expiry enforcement: a POST with the correct token that
\* arrives after the stored accept_expires_at is rejected with 403.
C5_Original == \A i \in PostInputs : Expired(i) => OutcomeOf(i) = 403

\* C5 as amended.  A POST with the correct token that arrives after the
\* stored accept_expires_at is rejected, with 403 when its form is valid and
\* with 400 when it is not, and the step of the rejection leaves the
\* proposal pending with its token and expiry as they were.
C5_Rejected ==
    \A i \in PostInputs :
        Expired(i) => OutcomeOf(i) = (IF ValidForm(i) THEN 403 ELSE 400)

C5_Frame ==
    NoUpdate => \A id \in DOMAIN proposals : proposals'[id] = proposals[id]

C5_Expiry == []C5_Rejected /\ [][C5_Frame]_vars

\* A POST met 403 while every proposal is pending, holds its token and is
\* past its expiry.
C5_Witness ==
    /\ resp = [op |-> "post", code |-> 403]
    /\ DOMAIN proposals = PropIds
    /\ \A id \in DOMAIN proposals :
          /\ proposals[id].status = "pending"
          /\ proposals[id].accept_token # None
          /\ now > Val(proposals[id].accept_expires_at)

\* The case of C6: the token is missing, or differs from the stored one, or
\* the proposal is not pending.
Conflict(i) ==
    \/ Falsy(i.token)
    \/ /\ i.id \in DOMAIN proposals
       /\ \/ i.token # proposals[i.id].accept_token
          \/ proposals[i.id].status # "pending"

\* C6 as stated.  Such a POST is rejected with 403.
C6_Original == \A i \in PostInputs : Conflict(i) => OutcomeOf(i) = 403

\* C6 as amended.  A POST whose token is missing, differs from the stored
\* token, or targets a proposal that is not pending is rejected, with 403
\* when its form is valid and with 400 when it is not, and the step of the
\* rejection modifies no column of any proposal row and starts no write.
C6_Rejected ==
    \A i \in PostInputs :
        Conflict(i) => OutcomeOf(i) = (IF ValidForm(i) THEN 403 ELSE 400)

C6_Frame ==
    NoUpdate =>
        /\ \A id \in DOMAIN proposals : proposals'[id] = proposals[id]
        /\ resp'.op = "post" /\ resp' # resp => reqs' = reqs

C6_Conflict == []C6_Rejected /\ [][C6_Frame]_vars

\* A POST met 403 while every proposal is pending and within its expiry:
\* the token was missing or wrong.
C6_Witness ==
    /\ resp = [op |-> "post", code |-> 403]
    /\ DOMAIN proposals = PropIds
    /\ \A id \in DOMAIN proposals :
          /\ proposals[id].status = "pending"
          /\ now <= Val(proposals[id].accept_expires_at)

\* C7.  Viewing rule.  The GET of an accepted or declined proposal returns
\* the status page whatever the token; the GET of a pending proposal returns
\* the accept page when the token equals the stored one and the expiry has
\* not passed, and 403 otherwise.  The GET modifies no proposal.
C7_View ==
    \A id \in DOMAIN proposals, token \in FormTokens :
        LET row == proposals[id]
            out == ViewOutcome(id, token) IN
        /\ row.status \in {"accepted", "declined"} =>
              out = [op |-> "get", code |-> 200, page |-> "proposal_status"]
        /\ row.status = "pending" =>
              IF /\ token # None /\ token = row.accept_token
                 /\ row.accept_expires_at # None
                 /\ ~(now > Val(row.accept_expires_at))
              THEN out = [op |-> "get", code |-> 200, page |-> "proposal_accept"]
              ELSE out = [op |-> "get", code |-> 403]

C7_Frame == resp'.op = "get" /\ resp' # resp => proposals' = proposals

C7_Viewing == []C7_View /\ [][C7_Frame]_vars

\* The accept page was served at the very instant of the expiry.
C7_Witness ==
    /\ resp = [op |-> "get", code |-> 200, page |-> "proposal_accept"]
    /\ \E id \in DOMAIN proposals :
          /\ proposals[id].status = "pending"
          /\ now = Val(proposals[id].accept_expires_at)

-----------------------------------------------------------------------------
(* Properties of the usage ledger                                          *)

\* The inputs of a POST /generate.
GenInputs == [ip : IPs, jar : CookieJars, oversize : BOOLEAN]

\* The client is not Pro and the ledger count of its key (device id, else
\* IP) is at or above 3.
OverQuota(i) ==
    LET device == IF i.jar.gtj_device # None
                     /\ Val(i.jar.gtj_device).key = "SECRET_KEY"
                  THEN Some(Val(i.jar.gtj_device).payload) ELSE None
        pro == i.jar.gtj_pro = Some("1") /\ device # None
               /\ i.jar.gtj_customer # None
        key == IF device # None THEN <<"device", Val(device)>>
                                ELSE <<"ip", i.ip>>
    IN  /\ ~pro
        /\ key \in DOMAIN free_usage
        /\ free_usage[key].used_count >= 3

\* The rate limiter holds 10 hits of the ip that are no older than 60 seconds.
RateBlocked(ip) ==
    Cardinality({k \in 1..Len(ip_hits[ip]) : ip_hits[ip][k] >= now - 60}) >= 10

\* A POST /generate ends in this step with a blocked result.
BlockedStep == resp'.op = "gen" /\ resp' # resp /\ resp'.blocked

\* Worker w commits its increment in this step.
Counts(w) == reqs[w].pc = "gen_count" /\ reqs'[w] = Idle

\* C8 as stated.  Free-quota block: a POST /generate from a client that is
\* not Pro and whose ledger count is at or above FREE_LIMIT (3) returns the
\* blocked 'free' result.
C8_Original ==
    \A i \in GenInputs :
        OverQuota(i) => GenOutcome(i.ip, i.jar, i.oversize) = "free"

\* C8 as amended.  Such a POST returns the blocked 'free' result, unless the
\* rate limiter rejects it first and it returns the blocked 'rate' result;
\* either way the step that blocks it starts no generation and leaves the
\* ledger as it was.
C8_Blocked ==
    \A i \in GenInputs :
        OverQuota(i) =>
            GenOutcome(i.ip, i.jar, i.oversize)
                = (IF RateBlocked(i.ip) THEN "rate" ELSE "free")

C8_Frame == BlockedStep => reqs' = reqs /\ free_usage' = free_usage

C8_QuotaBlock == []C8_Blocked /\ [][C8_Frame]_vars

\* The 'free' block was returned and a key stands at the limit.
C8_Witness ==
    /\ resp = [op |-> "gen", code |-> 200, blocked |-> TRUE,
               block_reason |-> "free"]
    /\ \E k \in DOMAIN free_usage : free_usage[k].used_count >= 3
    /\ \A w \in Workers : reqs[w] = Idle

\* C9.  get_free_usage returns 0 for a key with no record; after n >= 1
\* committed increment_free_usage calls on a key its count is exactly n; and
\* no step lowers the count of a key.
C9_Count ==
    \A k \in Keys :
        /\ k \notin DOMAIN free_usage => GetFreeUsage(free_usage, k) = 0
        /\ committed[k] = 0 <=> k \notin DOMAIN free_usage
        /\ committed[k] >= 1 => GetFreeUsage(free_usage, k) = committed[k]

C9_Monotone ==
    \A k \in Keys :
        GetFreeUsage(free_usage', k) >= GetFreeUsage(free_usage, k)

C9_Ledger == []C9_Count /\ [][C9_Monotone]_vars

\* A key incremented three times, another one never.
C9_Witness ==
    \E k, l \in Keys :
        /\ committed[k] = 3 /\ k \in DOMAIN free_usage
        /\ free_usage[k].used_count = 3
        /\ committed[l] = 0 /\ l \notin DOMAIN free_usage

\* C10.  No lost updates: every committed increment_free_usage raises the
\* stored count of its key by exactly one and touches no other key, whatever
\* count the request read before and whatever the other requests have
\* committed in between (the key may be new).
C10_Step ==
    \A w \in Workers :
        Counts(w) /\ ~reqs[w].pro =>
            /\ GetFreeUsage(free_usage', reqs[w].key)
                 = GetFreeUsage(free_usage, reqs[w].key) + 1
            /\ \A k \in Keys \ {reqs[w].key} :
                 GetFreeUsage(free_usage', k) = GetFreeUsage(free_usage, k)

C10_NoLostUpdate == [][C10_Step]_vars

\* Two requests that both read count 0 before either commit: the last
\* response was computed from 0 and the stored count is 2.
C10_Witness ==
    /\ resp = [op |-> "gen", code |-> 200, blocked |-> FALSE,
               remaining |-> Some(2)]
    /\ \A w \in Workers : reqs[w] = Idle
    /\ \E k \in Keys :
          /\ DOMAIN free_usage = {k}
          /\ free_usage[k].used_count = 2

-----------------------------------------------------------------------------
(* Properties of the rate limiter                                          *)

\* The timestamps of the calls of the identity that were accepted, in order.
AcceptedTimes(ip) ==
    LET ok == SelectSeq(rate_log[ip], LAMBDA c : ~c.limited) IN
    [k \in 1..Len(ok) |-> ok[k].t]

\* The number of accepted calls of the identity no older than 60 seconds.
RecentAccepted(ip) ==
    Cardinality({k \in 1..Len(AcceptedTimes(ip)) :
                    AcceptedTimes(ip)[k] >= now - 60})

\* The identity is called in this step.
Called(ip) == rate_log'[ip] # rate_log[ip]

\* The result of the call made in this step.
Rejected(ip) == rate_log'[ip][Len(rate_log'[ip])].limited

\* C11.  Rate limiter window.  For one identity, with sequential calls and a
\* clock that never goes back, a call is rejected exactly when at least 10
\* of the calls of that identity accepted before have timestamps no older
\* than 60 seconds.  So the call after 10 accepted calls within the window
\* is rejected, and a call made when the tenth most recent accepted call is
\* more than 60 seconds old (or when fewer than ten were accepted) is
\* accepted.
C11_Step ==
    \A ip \in RateIds :
        Called(ip) =>
            LET a == AcceptedTimes(ip) IN
            /\ Rejected(ip) <=> RecentAccepted(ip) >= 10
            /\ Len(a) < 10 => ~Rejected(ip)
            /\ Len(a) >= 10 /\ now > a[Len(a) - 9] + 60 => ~Rejected(ip)
            /\ Len(a) >= 10 /\ now <= a[Len(a) - 9] + 60 => Rejected(ip)

C11_Window == [][C11_Step]_vars

\* Ten calls accepted, the eleventh rejected, and a twelfth accepted once the
\* window has passed.
C11_Witness ==
    \E ip \in RateIds :
        /\ Len(rate_log[ip]) = 12
        /\ \A k \in 1..10 : ~rate_log[ip][k].limited
        /\ rate_log[ip][11].limited
        /\ ~rate_log[ip][12].limited
        /\ resp = [op |-> "rate", ip |-> ip, limited |-> FALSE]

\* C12.  Reject without recording.  A rejected call appends no timestamp:
\* it leaves the sequence of its identity holding the earlier timestamps
\* that are no older than 60 seconds, and nothing else.  A call for one
\* identity leaves the sequence of every other identity as it was.  No
\* sequence ever holds more than 10 timestamps.
C12_Step ==
    \A x \in RateIds :
        Called(x) =>
            /\ Rejected(x) =>
                  ip_hits'[x] = SelectSeq(ip_hits[x], LAMBDA t : t >= now - 60)
            /\ \A y \in RateIds \ {x} : ip_hits'[y] = ip_hits[y]

C12_Ceiling == \A ip \in RateIds : Len(ip_hits[ip]) <= 10

C12_RejectNoRecord == []C12_Ceiling /\ [][C12_Step]_vars

\* A call was rejected while another identity has hits of its own.
C12_Witness ==
    \E x, y \in RateIds :
        /\ x # y
        /\ resp = [op |-> "rate", ip |-> x, limited |-> TRUE]
        /\ Len(ip_hits[x]) = 10
        /\ ip_hits[y] # <<>>

-----------------------------------------------------------------------------
(* Properties of the signed tokens                                         *)

\* The magic tokens handed out with the given purpose in their payload.
MagicIssued(purpose) ==
    {x.raw : x \in {y \in issued : y.kind = "magic" /\ y.raw.payload.purpose = purpose}}

\* C13.  Token purpose isolation for magic links.  A verified-email token
\* whose payload purpose is 'billing' is never accepted by
\* get_verified_email('restore_pro'), so /restore-pro answers it with its
\* verification error; a 'restore_pro' token is never accepted by
\* get_verified_email('billing'), so /billing-portal answers it with 403;
\* in both cases the signature of the token is valid.
C13_Isolation ==
    /\ \A raw \in MagicIssued("billing") :
          /\ Loads(MAGIC_LINK_SALT, raw) # None
          /\ GetVerifiedEmail(Some(raw), "restore_pro", now) = None
          /\ \A d \in MagicDeviceForms, hc \in BOOLEAN, hs \in BOOLEAN :
                RestoreOutcome(Some(raw), d, hc, hs) = "verification"
    /\ \A raw \in MagicIssued("restore_pro") :
          /\ Loads(MAGIC_LINK_SALT, raw) # None
          /\ GetVerifiedEmail(Some(raw), "billing", now) = None
          /\ \A hc \in BOOLEAN : BillingOutcome(Some(raw), hc) = 403

\* /restore-pro refused the verification while the only magic tokens handed
\* out are 'billing' tokens, one of them verified and not expired.
C13_Witness ==
    /\ resp = [op |-> "restore", restored |-> FALSE,
               restore_error |-> "verification"]
    /\ MagicIssued("restore_pro") = {}
    /\ \E raw \in MagicIssued("billing") :
          GetVerifiedEmail(Some(raw), "billing", now) # None

\* C14.  Codec purpose binding.  For any two distinct purposes among the
\* usage-count cookie, the device-id cookie, the customer-id cookie, the
\* track-id cookie and the magic link, a token the server minted for one
\* purpose fails to decode when it is presented for the other.
C14_PurposeBinding ==
    \A x \in issued :
        \A kind \in TokenKinds \ {x.kind} : DecodeAs(kind, Some(x.raw)) = None

-----------------------------------------------------------------------------
(* Properties of the cache key                                             *)

\* The words of a text: its maximal runs of letters, in lower case.  Two
\* texts with the same words differ only in leading or trailing white
\* space, in runs of white space inside, in letter case or in the style of
\* their line endings.
RECURSIVE Words(_, _)
Words(s, word) ==
    IF s = <<>> THEN (IF word = <<>> THEN <<>> ELSE <<word>>)
    ELSE IF Head(s) \in {" ", "cr", "lf"}
    THEN (IF word = <<>> THEN <<>> ELSE <<word>>) \o Words(Tail(s), <<>>)
    ELSE Words(Tail(s), Append(word, IF Head(s) = "A" THEN "a" ELSE Head(s)))

SameWords(d, e, f) == Words(d[f], <<>>) = Words(e[f], <<>>)

\* The two hashes compared in a step: of the input before and after.
Rehashed == resp.op = "hash" /\ resp'.op = "hash"

\* C15.  Cache key determinism.  Two inputs whose hashed fields (trade,
\* trade_profile, service_type, scope, tone, timeframe, your_business, abn)
\* differ only in leading or trailing white space, runs of white space
\* inside, letter case or line-ending style get the same key from
\* ai_input_hash.
C15_Step ==
    (/\ Rehashed
     /\ \A f \in {"trade", "trade_profile", "service_type", "scope", "tone",
                  "timeframe", "your_business", "abn"} : SameWords(data, data', f))
    => resp'.key = resp.key

C15_Determinism == [][C15_Step]_vars

\* The key of an input whose scope differs from the start in case, white
\* space and line endings, and is the key of the start.
C15_Witness ==
    /\ data.scope = <<" ", "A">> \/ data.scope = <<"a", "lf">>
    /\ resp = [op |-> "hash", key |-> AiInputHash(BaseInput)]

\* C16.  Cache key discrimination.  Two inputs whose normalized scope
\* differs, all other hashed fields equal, are joined into different
\* pre-hash strings and get different keys; two inputs that differ only in
\* price get the same key.
C16_Step ==
    /\ (/\ Rehashed
        /\ Normalize(data'.scope) # Normalize(data.scope)
        /\ \A f \in AllFields \ {"scope"} : data'[f] = data[f])
       => /\ JoinLines(HashParts(data')) # JoinLines(HashParts(data))
          /\ resp'.key # resp.key
    /\ (/\ Rehashed
        /\ data'.price # data.price
        /\ \A f \in AllFields \ {"price"} : data'[f] = data[f])
       => resp'.key = resp.key

C16_Discrimination == [][C16_Step]_vars

\* The key of an input whose scope has other words than the start.
C16_Witness ==
    /\ data.scope = <<"a", " ", "a">>
    /\ resp.op = "hash" /\ resp.key # AiInputHash(BaseInput)

\* The key of an input whose price differs from the start.
C16_PriceWitness ==
    /\ data.price = <<"A", " ", " ", "a">>
    /\ resp = [op |-> "hash", key |-> AiInputHash(BaseInput)]

-----------------------------------------------------------------------------
(* Properties of the fallback proposal                                     *)

\* The section headings of a document, in order.
Headings(doc) == SelectSeq(doc, LAMBDA l : l.kind = "heading")

\* The number of the section with the given title; 0 when there is none.
SectionNo(doc, title) ==
    IF \E k \in 1..Len(doc) : doc[k].kind = "heading" /\ doc[k].text = <<title>>
    THEN doc[CHOOSE k \in 1..Len(doc) :
                doc[k].kind = "heading" /\ doc[k].text = <<title>>].n
    ELSE 0

\* The lines of the section with the given title: those after its heading
\* and before the next blank line.
RECURSIVE UpToBlank(_)
UpToBlank(lines) ==
    IF lines = <<>> \/ Head(lines).kind = "blank" THEN <<>>
    ELSE <<Head(lines).text>> \o UpToBlank(Tail(lines))

SectionText(doc, title) ==
    LET k == CHOOSE j \in 1..Len(doc) :
                doc[j].kind = "heading" /\ doc[j].text = <<title>>
    IN  UpToBlank(SubSeq(doc, k + 1, Len(doc)))

\* C19.  Fallback structure.  For every input build_fallback_proposal
\* returns a text that is not empty, with sections numbered consecutively
\* from 1.  With an empty timeframe there is no Timeframe section and
\* Pricing and Acceptance are sections 3 and 4; with a timeframe they are 4
\* and 5.  With an empty price the Pricing section holds exactly 'Pricing to
\* be confirmed.', otherwise the supplied price as it is.  No provider call
\* is made.
C19_Doc ==
    resp.op = "fallback" =>
        LET doc == resp.text IN
        /\ doc # <<>>
        /\ \A k \in 1..Len(Headings(doc)) : Headings(doc)[k].n = k
        /\ Headings(doc) # <<>>
        /\ IF data.timeframe = <<>>
           THEN /\ SectionNo(doc, "Timeframe") = 0
                /\ SectionNo(doc, "Pricing") = 3
                /\ SectionNo(doc, "Acceptance / Next Steps") = 4
           ELSE /\ SectionNo(doc, "Timeframe") = 3
                /\ SectionNo(doc, "Pricing") = 4
                /\ SectionNo(doc, "Acceptance / Next Steps") = 5
        /\ IF data.price = <<>>
           THEN SectionText(doc, "Pricing") = << <<"Pricing to be confirmed.">> >>
           ELSE SectionText(doc, "Pricing") = <<data.price>>
        /\ resp.calls = 0

C19_FallbackStructure == []C19_Doc

\* The fallback of an input without timeframe and without price.
C19_Witness ==
    /\ resp.op = "fallback"
    /\ data.timeframe = <<>> /\ data.price = <<>>
    /\ data.scope # <<>>
    /\ Len(resp.text) > 10

-----------------------------------------------------------------------------
(* Properties of the proposal cache                                        *)

\* The age below which the sweep keeps a row.
MaxAge == CACHE_DAYS * SECONDS_PER_DAY

\* C17.  No cache leakage.  build_proposal_text returns a cached text only
\* to a request that agrees with the request that produced it on every
\* field the generator puts into the prompt, the client name and the price
\* included: the text returned on a hit is a text the provider writes for
\* the prompt of the request served.
C17_NoLeak ==
    (resp.op = "build" /\ resp.source = "cache") =>
        \E pass1 \in ProviderOutcomes : resp.text = AiDocument(data, pass1)

\* C18.  Generation always yields a document.  Whatever the provider does
\* (an exception, empty output, no API key, no scope), the generation of a
\* request ends in a response; the text returned by build_proposal_text is
\* not empty, and when the generation failed it is exactly
\* build_fallback_proposal(data).
C18_Returned ==
    resp.op = "build" =>
        /\ resp.text # <<>>
        /\ resp.error # "none" => resp.text = BuildFallbackProposal(data)

C18_Step ==
    \A w \in Workers :
        (reqs[w].pc = "build_generate" /\ reqs'[w] = Idle) =>
            /\ resp'.op = "build"
            /\ data' = reqs[w].data
            /\ resp'.source \in {"ai", "fallback"}
            /\ resp'.source = "ai" <=> resp'.error = "none"

C18_Document == []C18_Returned /\ [][C18_Step]_vars

\* Both passes were called, pass 2 failed, and the fallback came back.
C18_Witness ==
    /\ resp.op = "build"
    /\ resp.error = "RuntimeError" /\ resp.calls = 2
    /\ resp.text = BuildFallbackProposal(data)

\* Worker w starts build_proposal_text in this step: it runs the lookup,
\* and either returns at once or goes on to the generation.
Lookup(w) ==
    /\ reqs[w] = Idle
    /\ now' = now
    /\ reqs' = reqs \/ reqs'[w] # Idle

\* The input of the call that worker w starts in this step.
LookedUp(w) == IF reqs'[w] # Idle THEN reqs'[w].data ELSE data'

\* C20.  Cache hit path.  When the committed cache holds a row for the key
\* of the request whose last_used_at is within the last 30 days,
\* build_proposal_text returns the text of that row as it is, sets the
\* last_used_at of the row to the current time, leaves its text and its
\* created_at alone, and makes no call of the provider.
C20_Step ==
    \A w \in Workers :
        Lookup(w) =>
            LET cache_key == AiInputHash(LookedUp(w))
                fresh == {r \in RowsOf(ai_proposal_cache, cache_key) :
                            r.last_used_at >= now - MaxAge}
            IN  fresh # {} =>
                  \E r \in fresh :
                    /\ reqs' = reqs
                    /\ resp'.op = "build" /\ resp'.source = "cache"
                    /\ resp'.text = r.proposal_text
                    /\ resp'.calls = 0
                    /\ RowsOf(ai_proposal_cache', cache_key)
                         = {[r EXCEPT !.last_used_at = now]}

C20_HitPath == [][C20_Step]_vars

\* A hit on a row made at an earlier time of the clock.
C20_Witness ==
    /\ resp.op = "build" /\ resp.source = "cache"
    /\ \E r \in RowsOf(ai_proposal_cache, AiInputHash(data)) :
         /\ r.created_at < now
         /\ r.last_used_at = now
         /\ r.proposal_text = resp.text

\* The generation of worker w ends in this step.
Generated(w) == reqs[w].pc = "build_generate" /\ reqs'[w] = Idle

\* C21.  Miss-then-cached.  Whenever build_proposal_text misses the cache
\* and pass 2 of the provider returns text that is not empty, the request
\* returns that text, not the fallback, and the committed cache then holds
\* that text under the key of the request, whatever rows the table held
\* before and whatever identical requests run beside it.
C21_Step ==
    \A w \in Workers :
        (Generated(w) /\ resp'.error \in {"none", "IntegrityError"}) =>
            /\ resp'.source = "ai"
            /\ \E pass1 \in ProviderOutcomes :
                 resp'.text = AiDocument(reqs[w].data, pass1)
            /\ \E r \in RowsOf(ai_proposal_cache', AiInputHash(reqs[w].data)) :
                 r.proposal_text = resp'.text

C21_MissThenCached == [][C21_Step]_vars

-----------------------------------------------------------------------------
(* Properties of the two-pass generation                                   *)

\* The calls of a pass among the calls sent.
CallsOf(sent, pass) == SelectSeq(sent, LAMBDA c : c.pass = pass)

\* The scope lines that are not blank.
NonBlank(lines) == SelectSeq(lines, LAMBDA l : StripWs(l) # <<>>)

\* The lines are the bullets of the scope lines that are not blank, one for
\* each and in their order: a dash and the line without its leading
\* markers.
BulletsOf(lines, scope_notes) ==
    LET from == NonBlank(SplitLines(scope_notes, <<>>)) IN
    /\ Len(lines) = Len(from)
    /\ \A k \in 1..Len(from) :
         StripWs(lines[k]) =
            StripWs(<<"-", " ">> \o StripWs(LStripMarker(from[k])))

\* C22.  Two-pass protocol.  generate_proposal_ai calls the provider at
\* most once for pass 1 and at most once for pass 2.  When pass 1 raises,
\* pass 2 is still called, with bullets made from the scope lines that are
\* not blank, their leading markers stripped.  The function fails exactly
\* when the API key is missing, the scope is empty (and then without any
\* call of the provider), or pass 2 raises or returns empty text.
C22_TwoPass ==
    resp.op = "generate" =>
        LET scope_notes == StripWs(data.scope)
            sent == resp.sent
        IN
        /\ Len(CallsOf(sent, 1)) <= 1 /\ Len(CallsOf(sent, 2)) <= 1
        /\ Len(sent) = Len(CallsOf(sent, 1)) + Len(CallsOf(sent, 2))
        /\ resp.result.calls = Len(sent)
        /\ (resp.has_key /\ scope_notes # <<>> /\ resp.pass1 = "raise") =>
             \E locked \in {MechanicalBullets(scope_notes)} :
                /\ BulletsOf(SplitLines(locked, <<>>), scope_notes)
                /\ CallsOf(sent, 2) =
                     <<[pass |-> 2, prompt |-> ProposalPrompt(data, locked)]>>
        /\ ~resp.result.ok <=>
             \/ ~resp.has_key
             \/ scope_notes = <<>>
             \/ resp.pass2 \in {"raise", "empty"}
        /\ scope_notes = <<>> => sent = <<>>
        /\ resp.result.ok => resp.result.text # <<>>

\* Pass 1 raised on a scope of several lines and pass 2 returned text.
C22_Witness ==
    /\ resp.op = "generate"
    /\ resp.has_key /\ resp.pass1 = "raise" /\ resp.pass2 = "text"
    /\ Len(NonBlank(SplitLines(StripWs(data.scope), <<>>))) > 1
    /\ resp.result.ok
    /\ Len(resp.sent) = 2

\* The rows are those of a table swept at time t: none was last used more
\* than 30 days before t, and every row of the table before that was used
\* within the 30 days is kept.
SweptAt(before, rows, t) ==
    /\ \A r \in rows : r.last_used_at >= t - MaxAge
    /\ \A r \in before :
         r.last_used_at >= t - MaxAge => RowsOf(rows, r.input_hash) # {}

\* C23.  Eviction effect.  When a call of build_proposal_text returns, on a
\* hit, after a generation or with the fallback, the committed cache holds
\* no row whose last_used_at is more than 30 days before the call, and no
\* row used within the last 30 days was deleted by the sweep.
C23_Step ==
    /\ (reqs' = reqs /\ now' = now) =>
          SweptAt(ai_proposal_cache, ai_proposal_cache', now)
    /\ \A w \in Workers :
          Generated(w) =>
             SweptAt(ai_proposal_cache, ai_proposal_cache', reqs[w].now)

C23_Eviction == [][C23_Step]_vars

-----------------------------------------------------------------------------
(* Properties of the form of POST /accept/<id>                             *)

\* The case of C24: an accept whose name is empty or blank, or a decline
\* whose reason, stripped as the handler strips it, is longer than 1000
\* characters.
BadForm(i) ==
    \/ i.decision = Some("accept") /\ Strip(i.raw_name) = <<>>
    \/ i.decision = Some("decline") /\ i.reason_len > MAX_DECLINE_REASON

\* C24.  Accept/decline input validation.  A POST /accept/<id> with decision
\* 'accept' and an empty or blank name, or with decision 'decline' and a
\* reason longer than 1000 characters, is rejected with 400 whatever the
\* table holds (the proposal is not read), and the proposal is unchanged.
\* On a successful accept responded_name is the name supplied (stripped) and
\* decline_reason is NULL.
C24_Rejected ==
    \A i \in PostInputs : BadForm(i) => OutcomeOf(i) = 400

C24_Accepted ==
    \A i \in PostInputs, ip \in IPs :
        (i.decision = Some("accept") /\ OutcomeOf(i) = 0) =>
            LET p == UpdateParams(i.decision, Strip(i.raw_name), i.reason_len,
                                  ip)
            IN  /\ p.responded_name = Some(Strip(i.raw_name))
                /\ Strip(i.raw_name) # <<>>
                /\ p.decline_reason = None

C24_Step ==
    /\ \A w \in Workers :
          (Updates(w) /\ reqs[w].params.status = "accepted") =>
              LET id == reqs[w].id IN
              /\ proposals'[id].status = "accepted"
              /\ proposals'[id].responded_name = reqs[w].params.responded_name
              /\ proposals'[id].responded_name # None
              /\ proposals'[id].decline_reason = None
    /\ (resp'.op = "post" /\ resp'.code = 400 /\ NoUpdate) =>
          \A id \in DOMAIN proposals : proposals'[id] = proposals[id]

C24_Validation == [](C24_Rejected /\ C24_Accepted) /\ [][C24_Step]_vars

\* A POST met 400 while a proposal is pending, and another proposal was
\* accepted under a name.
C24_Witness ==
    /\ resp = [op |-> "post", code |-> 400]
    /\ \E id \in DOMAIN proposals : proposals[id].status = "pending"
    /\ \E id \in DOMAIN proposals :
          /\ proposals[id].status = "accepted"
          /\ proposals[id].responded_name = Some(<<"a">>)
          /\ proposals[id].decline_reason = None

\* C26.  Invalid decision is not a transition.  A POST /accept/<id> with
\* the stored token of a pending proposal, before its expiry, whose
\* decision is missing or is neither 'accept' nor 'decline', is not admitted
\* to the UPDATE: the proposal stays pending with its token and expiry.
C26_NoTransition ==
    \A i \in PostInputs :
        (/\ i.decision \notin {Some("accept"), Some("decline")}
         /\ i.id \in DOMAIN proposals
         /\ proposals[i.id].status = "pending"
         /\ i.token # None /\ i.token = proposals[i.id].accept_token
         /\ proposals[i.id].accept_expires_at # None
         /\ now <= Val(proposals[i.id].accept_expires_at))
        => OutcomeOf(i) # 0

-----------------------------------------------------------------------------
(* Properties of the quota under concurrency                               *)

\* C25.  Quota under concurrency.  For every usage key and every
\* interleaving of concurrent POST /generate requests of clients that are
\* not Pro and share the key, the number of requests that were given a
\* document never exceeds FREE_LIMIT, and the count of the ledger for the
\* key never exceeds FREE_LIMIT.
C25_Quota ==
    \A key \in Keys :
        /\ committed[key] <= FREE_LIMIT
        /\ GetFreeUsage(free_usage, key) <= FREE_LIMIT

-----------------------------------------------------------------------------
(* Properties of the rate limiter under concurrency                        *)

\* The number of accepted calls of the identity in the 60 seconds that
\* start with its k-th accepted call.
AcceptedFrom(ip, k) ==
    LET a == AcceptedTimes(ip) IN
    Cardinality({j \in 1..Len(a) : a[j] >= a[k] /\ a[j] <= a[k] + RATE_WINDOW})

\* C29.  Rate limit under concurrency.  For every interleaving of
\* concurrent is_rate_limited calls for one identity, no more than 10 calls
\* are accepted within any window of 60 seconds, and the stored sequence of
\* the identity never holds more than 10 timestamps.
C29_Concurrent ==
    \A ip \in RateIds :
        /\ Len(ip_hits[ip]) <= RATE_LIMIT_PER_MINUTE
        /\ \A k \in 1..Len(AcceptedTimes(ip)) :
              AcceptedFrom(ip, k) <= RATE_LIMIT_PER_MINUTE

-----------------------------------------------------------------------------
(* Properties of the Pro status                                            *)

\* The cookies of a kind that the server has handed out.
IssuedAs(kind) == {Some(x.raw) : x \in {y \in issued : y.kind = kind}}

\* C27.  Pro status requires a restore.  is_pro_user is true for a request
\* only if its device-id cookie and its customer-id cookie were handed out
\* by a successful /restore-pro; a client cannot become Pro by sending back
\* another cookie the server has handed out (the track cookie, the usage
\* cookie) together with gtj_pro=1.
C27_ProRequiresRestore ==
    \A gtj_device \in Presented, gtj_customer \in Presented :
        IsProRequest(Some("1"), gtj_device, gtj_customer) =>
            /\ gtj_device \in IssuedAs("device")
            /\ gtj_customer \in IssuedAs("customer")

-----------------------------------------------------------------------------
(* Properties of the magic link as a credential                            *)

\* The verified-email cookie that GET /verify sets for a link token at time
\* t, None when it sets none.
VerifiedCookie(token, t) ==
    IF token = None THEN None
    ELSE IF Loads(MAGIC_LINK_SALT, Val(token)) = None THEN None
    ELSE LET link == Val(Loads(MAGIC_LINK_SALT, Val(token))) IN
         IF t > link.exp \/ link.v = "" \/ link.purpose = "" THEN None
         ELSE Some(Dumps(MAGIC_LINK_SALT, link))

\* At time t the link token, taken through /verify, yields a verified-email
\* state that a request of the purpose honours.
Unlocks(token, purpose, t) ==
    GetVerifiedEmail(VerifiedCookie(token, t), purpose, t) # None

\* A request of the purpose honours a verified-email state in this step and
\* succeeds: /billing-portal redirects to the portal, /restore-pro passes
\* its checks and goes on to store the device.
Used(purpose) ==
    IF purpose = "billing"
    THEN resp' # resp /\ resp'.op = "billing" /\ resp'.code = 303
    ELSE \E w \in Workers :
            reqs[w] = Idle /\ reqs'[w].pc = "restore_modify"

\* C28.  Single-use magic link.  Once a link token has been verified and
\* used for one successful /billing-portal or /restore-pro request, that
\* token can no longer be taken through /verify to a verified-email state
\* that unlocks another such request; and a verified-email state is never
\* honoured more than 15 minutes after a link was requested.
C28_Step ==
    \A purpose \in {"billing", "restore_pro"} :
        Used(purpose) =>
            \E token \in Presented :
                /\ Unlocks(token, purpose, now)
                /\ ~Unlocks(token, purpose, now')

C28_Expiry ==
    \A raw \in Presented, purpose \in {"billing", "restore_pro"} :
        GetVerifiedEmail(raw, purpose, now) # None =>
            \E ip \in RateIds : \E k \in 1..Len(rate_log[ip]) :
                now <= rate_log[ip][k].t + MAGIC_LINK_TTL_SECONDS

C28_SingleUse == []C28_Expiry /\ [][C28_Step]_vars

-----------------------------------------------------------------------------
(* Properties of the device limit                                          *)

\* Worker w finishes Customer.modify in this step.
Modifies(w) == reqs[w].pc = "restore_modify" /\ reqs'[w] = Idle

\* C30.  Device limit.  After any sequence of /restore-pro requests, with
\* any device_id strings, in turn or concurrent, the pro_devices list of a
\* customer, split on commas, never holds more than 2 device ids.  A restore
\* from a device that is not in a full list is refused and leaves the list
\* as it is, and a restore from a listed device succeeds and does not make
\* the list longer.
C30_Ceiling ==
    \A c \in CustomerIds : Len(pro_devices[c]) <= MAX_DEVICES

C30_Outcome ==
    \A raw \in Presented, device_id \in DeviceForms \ {""} :
        LET email == GetVerifiedEmail(raw, "restore_pro", now)
            devices == pro_devices[CustomerOf(Val(email))]
        IN  email # None =>
              /\ (~InSeq(device_id, devices) /\ Len(devices) >= MAX_DEVICES)
                    => RestoreOutcome(raw, device_id, TRUE, TRUE) = "device_limit"
              /\ InSeq(device_id, devices)
                    => RestoreOutcome(raw, device_id, TRUE, TRUE) = "ok"

C30_Step ==
    /\ (\A w \in Workers : ~Modifies(w)) => pro_devices' = pro_devices
    /\ \A w \in Workers :
          LET c == reqs[w].customer_id IN
          (Modifies(w) /\ InSeq(reqs[w].device_id, pro_devices[c])) =>
              Len(pro_devices'[c]) <= Len(pro_devices[c])

C30_DeviceLimit == [](C30_Ceiling /\ C30_Outcome) /\ [][C30_Step]_vars

====
